---- MODULE Spec2Model ----
(***************************************************************************)
(* Triple-coincidence pipeline of aipha: the barrier labeler               *)
(* (potential_capture_engine.py), the signal combiner, the accumulation    *)
(* zone and trend detectors and the orchestrator, as state machines.       *)
(*                                                                         *)
(* Tables are functions over the zero-based positions 0..n-1, as the code  *)
(* addresses them (iloc / RangeIndex).  Prices are integers; a ratio the   *)
(* code computes in floating point is kept as an exact fraction <<p, q>>   *)
(* with q > 0 and compared by cross-multiplication.                        *)
(***************************************************************************)
EXTENDS Integers, Sequences, FiniteSets, TLC

VARIABLES
    \* ---- get_enhanced_triple_barrier_labels ----
    prices,           \* the caller's price table; line 41 sets its 'atr' column
    events_arg,       \* the t_events argument, as passed by the caller
    labeling_config,  \* profit_factors, stop_loss_factor, time_limit, drawdown_threshold
    t_events,         \* t_events after the isin filter (line 44)
    labels,           \* the returned Series: event index -> label
    lpc,              \* position in the function
    event_pos,        \* iterator of `for event_idx in t_events`
    sl_level,
    tp_levels,
    path_max_idx,
    bar,              \* iterator of `for i, row in price_path.iterrows()`
    label,
    \* ---- SignalCombiner.combine ----
    comb_df,          \* the df argument: [columns, rows]
    combiner_config,  \* the caller's 'combiner' mapping
    comb_res,         \* df_res
    cpc,              \* position in combine
    key_candle_indices,
    key_pos,          \* iterator of `for idx in key_candle_indices`
    comb_error,       \* the column named by the ValueError, "" when none
    \* ---- AccumulationZoneDetector.detect ----
    zone_df,          \* the df argument (rows of High, Low, Close, Volume)
    zone_config,      \* volume_threshold, atr_multiplier, min_zone_periods, volume_ma_period, atr_period
    zone_res,         \* df_res
    current_zone,     \* <<>> for None, <<zone>> otherwise
    zi,               \* iterator of `for i in range(len(df_res))`
    zpc,              \* position in detect
    zones_closed,     \* log of the zones closed so far, in order
    \* ---- TripleCoincidenceOrchestrator.run ----
    orch_df,          \* the df argument (rows of Open, High, Low, Close, Volume)
    self_config,      \* self.config
    run_labeling,     \* the labeling_config argument: <<>> for None, <<mapping>> otherwise
    df_processed,
    opc,              \* position in run
    orch_error,       \* the exception that ended the run, "" when none
    \* ---- two runs of the detectors on series that share a prefix ----
    series_a,         \* a candle series
    series_b,         \* the same series with the candle at changed_at replaced
    changed_at,       \* the series agree on 0..changed_at-1
    out_a,            \* the detectors' and the combiner's columns for series_a
    out_b,
    ppc,
    \* ---- TrendDetector.detect ----
    trend_df,         \* the df argument (rows of High, Low, Close)
    trend_config,     \* zigzag_threshold, min_trend_bars
    trend_res,        \* df_res
    zz,               \* the walk's pivots, last_pivot_idx and trend
    tzi,              \* iterator of `for i in range(1, len(df))`
    trend_pivots,     \* the list returned by _detect_zigzag_pivots
    seg_i,            \* iterator of `for i in range(len(pivots) - 1)`
    t_counter,
    segments,         \* log of the segments annotated so far, in order
    tpc,              \* position in detect
    \* ---- SignalDetector.detect_key_candles, called on two tables ----
    key_df,           \* the df argument (rows of Open, High, Low, Close, Volume)
    key_other,        \* key_df with the candle at key_changed replaced
    key_changed,
    key_config,       \* volume_lookback and the two percentile thresholds
    key_res,          \* the table returned for key_df
    key_res_other,    \* the table returned for key_other
    kpc,
    \* ---- a second call of run on the same table ----
    first_out,        \* <<>> during the first call, then <<how it ended>>
    \* ---- BinanceKlinesFetcher.fetch_klines_by_template ----
    template,         \* start_date and end_date, as day numbers
    day_files,        \* what fetch_klines_as_dataframe finds for each day
    date_range,       \* the list returned by template.get_date_range()
    date_pos,         \* iterator of `for current_date in date_range`
    all_daily_dataframes,
    fetch_result,     \* <<>> for None, <<table>> otherwise
    fpc,              \* position in fetch_klines_by_template
    \* ---- SignalScorer.score ----
    score_df,         \* the df argument (rows with the combiner's columns)
    score_res         \* <<>> before the call, then <<the returned table>>

labVars == <<prices, events_arg, labeling_config, t_events, labels, lpc,
             event_pos, sl_level, tp_levels, path_max_idx, bar, label>>

combVars == <<comb_df, combiner_config, comb_res, cpc, key_candle_indices, key_pos,
              comb_error>>

zoneVars == <<zone_df, zone_config, zone_res, current_zone, zi, zpc, zones_closed>>

orchVars == <<orch_df, self_config, run_labeling, df_processed, opc, orch_error>>

pairVars == <<series_a, series_b, changed_at, out_a, out_b, ppc>>

trendVars == <<trend_df, trend_config, trend_res, zz, tzi, trend_pivots, seg_i, t_counter,
               segments, tpc>>

keyVars == <<key_df, key_other, key_changed, key_config, key_res, key_res_other, kpc>>

rerunVars == <<first_out>>

fetchVars == <<template, day_files, date_range, date_pos, all_daily_dataframes,
               fetch_result, fpc>>

scoreVars == <<score_df, score_res>>

vars == <<labVars, combVars, zoneVars, orchVars, pairVars, trendVars, keyVars, rerunVars,
          fetchVars, scoreVars>>

\* what each component leaves alone
notLabVars ==
    <<combVars, zoneVars, orchVars, pairVars, trendVars, keyVars, rerunVars, fetchVars,
      scoreVars>>
notCombVars ==
    <<labVars, zoneVars, orchVars, pairVars, trendVars, keyVars, rerunVars, fetchVars,
      scoreVars>>
notZoneVars ==
    <<labVars, combVars, orchVars, pairVars, trendVars, keyVars, rerunVars, fetchVars,
      scoreVars>>
notOrchVars ==
    <<labVars, combVars, zoneVars, pairVars, trendVars, keyVars, rerunVars, fetchVars,
      scoreVars>>
notPairVars ==
    <<labVars, combVars, zoneVars, orchVars, trendVars, keyVars, rerunVars, fetchVars,
      scoreVars>>
notTrendVars ==
    <<labVars, combVars, zoneVars, orchVars, pairVars, keyVars, rerunVars, fetchVars,
      scoreVars>>
notKeyVars ==
    <<labVars, combVars, zoneVars, orchVars, pairVars, trendVars, rerunVars, fetchVars,
      scoreVars>>

----------------------------------------------------------------------------
(* Generic helpers *)

NaN == -1     \* an undefined (NaN) cell; every defined cell is >= 0

Min2(a, b) == IF a <= b THEN a ELSE b
Max2(a, b) == IF a >= b THEN a ELSE b

NRows(df) == Cardinality(DOMAIN df)

SeqToSet(q) == { q[x] : x \in DOMAIN q }

\* a > b and a >= b for fractions with positive denominators
RatGT(a, b) == a[1] * b[2] > b[1] * a[2]
RatGE(a, b) == a[1] * b[2] >= b[1] * a[2]

NaNF == <<0, 0>>   \* an undefined (NaN) cell of a fraction-valued column
IsNaNF(a) == a[2] = 0

Abs(x) == IF x < 0 THEN -x ELSE x

RECURSIVE GCD(_, _)
GCD(a, b) == IF b = 0 THEN a ELSE GCD(b, a % b)

\* the fraction n/d (d > 0) in lowest terms
Frac(n, d) == LET g == GCD(Abs(n), d) IN <<n \div g, d \div g>>

RatAdd(a, b) == Frac(a[1] * b[2] + b[1] * a[2], a[2] * b[2])
RatSub(a, b) == Frac(a[1] * b[2] - b[1] * a[2], a[2] * b[2])
RatMul(a, b) == Frac(a[1] * b[1], a[2] * b[2])
\* a / b for b > 0
RatDiv(a, b) == Frac(a[1] * b[2], a[2] * b[1])
RatMin(a, b) == IF RatGT(a, b) THEN b ELSE a
RatMax(a, b) == IF RatGT(a, b) THEN a ELSE b

RECURSIVE Pow(_, _)
Pow(b, e) == IF e = 0 THEN 1 ELSE b * Pow(b, e - 1)

\* sorted(list): insertion of x into an ascending sequence, then the fold
RECURSIVE InsertSorted(_, _)
InsertSorted(x, s) ==
    IF s = <<>> THEN <<x>>
    ELSE IF x <= Head(s) THEN <<x>> \o s
    ELSE <<Head(s)>> \o InsertSorted(x, Tail(s))

RECURSIVE Sorted(_)
Sorted(s) == IF s = <<>> THEN <<>> ELSE InsertSorted(Head(s), Sorted(Tail(s)))

\* max of a column over the inclusive positions lo..hi (lo <= hi)
RECURSIVE MaxHigh(_, _, _)
MaxHigh(df, lo, hi) ==
    IF lo = hi THEN df[lo].High ELSE Max2(df[hi].High, MaxHigh(df, lo, hi - 1))

----------------------------------------------------------------------------
(* Bounds of the labeler's inputs *)

LabBars == 3        \* rows of the generic price tables
LabPrices == 1..3    \* the price levels of the generic tables

LabRows ==
    { [High |-> h, Low |-> l, Close |-> c] :
        <<h, l, c>> \in { t \in LabPrices \X LabPrices \X LabPrices :
                            t[2] <= t[3] /\ t[3] <= t[1] } }

\* line 41: prices['atr'] = ta.atr(...), set or replaced: undefined on a
\* prefix of the table (insufficient history), then a
WithAtr(tbl, undef, a) ==
    [p \in DOMAIN tbl |-> [atr |-> IF p < undef THEN NaN ELSE a] @@ tbl[p]]

LabConfigs ==
    { [profit_factors |-> <<1, 2>>, stop_loss_factor |-> 1, time_limit |-> 3,
       drawdown_threshold |-> <<1, 2>>],
      [profit_factors |-> <<1>>, stop_loss_factor |-> 1, time_limit |-> 2,
       drawdown_threshold |-> <<1, 1>>],
      [profit_factors |-> <<1, 2>>, stop_loss_factor |-> 1, time_limit |-> 2,
       drawdown_threshold |-> <<0, 1>>] }

\* event lists: one event, the first two rows, or an event outside the index
LabEventLists ==
    { <<p>> : p \in 0..(LabBars - 1) } \cup { <<0, 1>>, <<0, LabBars>> }

\* The price paths of Scenarios A, B and C: the event is row 0, Close 100, ATR 2
Row(h, l, c) == [High |-> h, Low |-> l, Close |-> c]
ScenarioA == (0 :> Row(101, 99, 100)) @@ (1 :> Row(103, 100, 102)) @@ (2 :> Row(105, 102, 104))
ScenarioB == (0 :> Row(101, 97, 100)) @@ (1 :> Row(103, 100, 102)) @@ (2 :> Row(105, 102, 104))
ScenarioC == (0 :> Row(108, 99, 100)) @@ (1 :> Row(103, 97, 100)) @@ (2 :> Row(105, 102, 104))
ScenarioTables == {ScenarioA, ScenarioB, ScenarioC}
ScenarioConfigs ==
    { [profit_factors |-> <<1, 2>>, stop_loss_factor |-> 1, time_limit |-> 3,
       drawdown_threshold |-> d] : d \in {<<0, 1>>, <<1, 2>>, <<1, 1>>} }

\* line 41: what ta.atr returns for a table, as <<undefined prefix, level>>:
\* ATR 2 on every row of the scenarios' tables, and in the generic tables
\* level 1, on every row or on every row but the first
AtrOutcomes(tbl) ==
    IF tbl \in ScenarioTables THEN {<<0, 2>>} ELSE {<<0, 1>>, <<1, 1>>}

----------------------------------------------------------------------------
(* get_enhanced_triple_barrier_labels *)

\* line 44: t_events[t_events.isin(prices.index)]
IsinFilter(ev, df) == SelectSeq(ev, LAMBDA e : e \in DOMAIN df)

\* line 60: sorted([entry_price + atr_at_event * pf for pf in profit_factors])
TpLevels(entry_price, atr_at_event, profit_factors) ==
    Sorted([j \in 1..Len(profit_factors) |-> entry_price + atr_at_event * profit_factors[j]])

\* lines 87-89: for j, tp_level in reversed(list(enumerate(tp_levels))):
\*                  if row['High'] >= tp_level: label = j + 1
\* j is the one-based tier here; the loop has no break, so every tier is tested.
RECURSIVE TpScanOffByOne(_, _, _, _)
TpScanOffByOne(lab, j, high, tps) ==
    IF j = 0 THEN lab
    ELSE TpScanOffByOne(IF high >= tps[j] THEN j + 1 ELSE lab, j - 1, high, tps)

RECURSIVE TpScan(_, _, _, _)
TpScan(lab, j, high, tps) ==
    IF j = 0 THEN lab
    ELSE TpScan(IF high >= tps[j] THEN j ELSE lab, j - 1, high, tps)

\* the ratio of line 78 turned upside down
DrawdownInverted(highest_before_sl, sl, entry_price) ==
    IF highest_before_sl > entry_price
    THEN <<highest_before_sl - entry_price, highest_before_sl - sl>>
    ELSE <<0, 1>>

\* line 78: drawdown, as a fraction
Drawdown(highest_before_sl, sl, entry_price) ==
    IF highest_before_sl > entry_price
    THEN <<highest_before_sl - sl, highest_before_sl - entry_price>>
    ELSE <<0, 1>>

\* lines 74-83: the label given when the stop-loss is touched at position i
StopLossLabelBeforeOnly(df, event_idx, i, sl, threshold) ==
    LET drawdown == IF i = event_idx THEN <<0, 1>>
                    ELSE Drawdown(MaxHigh(df, event_idx, i - 1), sl, df[event_idx].Close)
    IN IF RatGT(drawdown, threshold) THEN 0 ELSE -1

StopLossLabel(df, event_idx, i, sl, threshold) ==
    LET highest_before_sl == MaxHigh(df, event_idx, i)
        drawdown == Drawdown(highest_before_sl, sl, df[event_idx].Close)
    IN IF RatGT(drawdown, threshold) THEN 0 ELSE -1

\* lines 69-90 as one pass: the label after the bars b..path_end-1
RECURSIVE ScanPath(_, _, _, _, _, _, _, _)
ScanPath(df, event_idx, b, path_end, lab, sl, tps, threshold) ==
    IF b >= path_end THEN lab
    ELSE IF df[b].Low <= sl THEN StopLossLabel(df, event_idx, b, sl, threshold)
    ELSE ScanPath(df, event_idx, b + 1, path_end,
                  TpScan(lab, Len(tps), df[b].High, tps), sl, tps, threshold)

\* lines 46-94 as one pass: the returned Series
BarrierLabels(df, events, lcfg) ==
    [event_idx \in SeqToSet(events) \cap DOMAIN df |->
        IF df[event_idx].atr = NaN THEN 0
        ELSE ScanPath(df, event_idx, event_idx,
                      Min2(event_idx + lcfg.time_limit, NRows(df)), 0,
                      df[event_idx].Close - df[event_idx].atr * lcfg.stop_loss_factor,
                      TpLevels(df[event_idx].Close, df[event_idx].atr, lcfg.profit_factors),
                      lcfg.drawdown_threshold)]

LabIdle ==
    /\ t_events = <<>> /\ labels = <<>> /\ event_pos = 1
    /\ sl_level = 0 /\ tp_levels = <<>> /\ path_max_idx = 0 /\ bar = 0 /\ label = 0

LabInit ==
    /\ \/ /\ prices \in [0..(LabBars - 1) -> LabRows]
          /\ labeling_config \in LabConfigs
          /\ events_arg \in LabEventLists
       \/ /\ prices \in ScenarioTables
          /\ labeling_config \in ScenarioConfigs
          /\ events_arg = <<0>>
    /\ lpc = "call"
    /\ LabIdle

\* lines 41-46: the atr column, the isin filter, labels = pd.Series(0, index=t_events)
LabelerCall ==
    /\ lpc = "call"
    /\ \E o \in AtrOutcomes(prices) : prices' = WithAtr(prices, o[1], o[2])
    /\ t_events' = IsinFilter(events_arg, prices)
    /\ labels' = [e \in { events_arg[x] : x \in DOMAIN events_arg } \cap DOMAIN prices |-> 0]
    /\ event_pos' = 1
    /\ lpc' = "for_event"
    /\ UNCHANGED <<events_arg, labeling_config, sl_level, tp_levels,
                   path_max_idx, bar, label>>
    /\ UNCHANGED notLabVars

\* the next event with a path of time_limit + 1 candles
ForEventLongerPath ==
    /\ lpc = "for_event"
    /\ event_pos <= Len(t_events)
    /\ LET event_idx == t_events[event_pos]
           entry_price == prices[event_idx].Close
           atr_at_event == prices[event_idx].atr
       IN IF atr_at_event = NaN
          THEN /\ event_pos' = event_pos + 1
               /\ UNCHANGED <<lpc, sl_level, tp_levels, path_max_idx, bar, label>>
          ELSE /\ sl_level' = entry_price - atr_at_event * labeling_config.stop_loss_factor
               /\ tp_levels' = TpLevels(entry_price, atr_at_event, labeling_config.profit_factors)
               /\ path_max_idx' = event_idx + labeling_config.time_limit + 1
               /\ bar' = event_idx
               /\ label' = 0
               /\ lpc' = "scan"
               /\ UNCHANGED event_pos
    /\ UNCHANGED <<prices, events_arg, labeling_config, t_events, labels>>
    /\ UNCHANGED notLabVars

\* lines 49-66: the next event; skipped when its ATR is undefined
ForEvent ==
    /\ lpc = "for_event"
    /\ event_pos <= Len(t_events)
    /\ LET event_idx == t_events[event_pos]
           entry_price == prices[event_idx].Close
           atr_at_event == prices[event_idx].atr
       IN IF atr_at_event = NaN
          THEN /\ event_pos' = event_pos + 1
               /\ UNCHANGED <<lpc, sl_level, tp_levels, path_max_idx, bar, label>>
          ELSE /\ sl_level' = entry_price - atr_at_event * labeling_config.stop_loss_factor
               /\ tp_levels' = TpLevels(entry_price, atr_at_event, labeling_config.profit_factors)
               /\ path_max_idx' = event_idx + labeling_config.time_limit
               /\ bar' = event_idx
               /\ label' = 0
               /\ lpc' = "scan"
               /\ UNCHANGED event_pos
    /\ UNCHANGED <<prices, events_arg, labeling_config, t_events, labels>>
    /\ UNCHANGED notLabVars

\* lines 69-90: one bar of price_path = prices.iloc[pos:path_max_idx]
ScanBar ==
    /\ lpc = "scan"
    /\ bar < Min2(path_max_idx, NRows(prices))
    /\ LET row == prices[bar]
           event_idx == t_events[event_pos]
       IN IF row.Low <= sl_level
          THEN /\ label' = StopLossLabel(prices, event_idx, bar, sl_level,
                                         labeling_config.drawdown_threshold)
               /\ lpc' = "store"           \* break
               /\ UNCHANGED bar
          ELSE /\ label' = TpScan(label, Len(tp_levels), row.High, tp_levels)
               /\ bar' = bar + 1
               /\ UNCHANGED lpc
    /\ UNCHANGED <<prices, events_arg, labeling_config, t_events, labels, event_pos,
                   sl_level, tp_levels, path_max_idx>>
    /\ UNCHANGED notLabVars

\* line 92: labels.loc[event_idx] = label, after the break or the end of the path
StoreLabel ==
    /\ \/ lpc = "store"
       \/ lpc = "scan" /\ bar >= Min2(path_max_idx, NRows(prices))
    /\ labels' = [labels EXCEPT ![t_events[event_pos]] = label]
    /\ event_pos' = event_pos + 1
    /\ lpc' = "for_event"
    /\ UNCHANGED <<prices, events_arg, labeling_config, t_events, sl_level, tp_levels,
                   path_max_idx, bar, label>>
    /\ UNCHANGED notLabVars

\* line 94: return labels
LabelerReturn ==
    /\ lpc = "for_event"
    /\ event_pos > Len(t_events)
    /\ lpc' = "done"
    /\ UNCHANGED <<prices, events_arg, labeling_config, t_events, labels, event_pos,
                   sl_level, tp_levels, path_max_idx, bar, label>>
    /\ UNCHANGED notLabVars

----------------------------------------------------------------------------
(* Bounds of the combiner's inputs *)

CombRows == 3       \* rows of the annotated tables
MaxLookback == 2    \* proximity_lookback ranges over 1..MaxLookback

required_cols ==
    <<"is_key_candle", "in_accumulation_zone", "zone_quality_score",
      "is_in_trend", "trend_r_squared", "trend_slope", "trend_direction">>

\* what the detectors leave in a row: no zone (score 0.0) or a zone with its
\* quality score; no trend (0.0, 0.0, 'ninguna') or a trend with its statistics
ZoneCells ==
    { [in_accumulation_zone |-> FALSE, zone_quality_score |-> <<0, 1>>],
      [in_accumulation_zone |-> TRUE, zone_quality_score |-> <<3, 10>>],
      [in_accumulation_zone |-> TRUE, zone_quality_score |-> <<9, 10>>] }

TrendCells ==
    { [is_in_trend |-> FALSE, trend_r_squared |-> <<0, 1>>, trend_slope |-> <<0, 1>>,
       trend_direction |-> "ninguna"],
      [is_in_trend |-> TRUE, trend_r_squared |-> <<1, 5>>, trend_slope |-> <<-1, 2>>,
       trend_direction |-> "bajista"],
      [is_in_trend |-> TRUE, trend_r_squared |-> <<4, 5>>, trend_slope |-> <<1, 1>>,
       trend_direction |-> "alcista"] }

AnnotatedRows ==
    { [is_key_candle |-> k] @@ z @@ t : k \in BOOLEAN, z \in ZoneCells, t \in TrendCells }

\* the 'combiner' settings of the caller: proximity_lookback, which combine
\* takes, with the two quality thresholds of train_oracle.py (lines 51-55),
\* which combine has no parameter for and never reads
CombConfigs ==
    { [proximity_lookback |-> w, min_zone_quality |-> q, min_trend_r2 |-> q] :
        w \in 1..MaxLookback, q \in {<<1, 2>>} }

\* a table that lacks some of the required columns
SampleRows ==
    [p \in 0..(CombRows - 1) |->
        [is_key_candle |-> (p = CombRows - 1), in_accumulation_zone |-> TRUE,
         zone_quality_score |-> <<9, 10>>, is_in_trend |-> TRUE,
         trend_r_squared |-> <<4, 5>>, trend_slope |-> <<1, 1>>,
         trend_direction |-> "alcista"]]

IncompleteColumnSets ==
    { SeqToSet(required_cols) \ m : m \in { {c} : c \in SeqToSet(required_cols) }
                                          \cup { {"is_key_candle", "trend_slope"} } }

----------------------------------------------------------------------------
(* SignalCombiner.combine *)

\* only the first required column is looked for
RECURSIVE FirstMissingOfHead(_, _)
FirstMissingOfHead(cols, columns) ==
    IF cols = <<>> THEN ""
    ELSE IF Head(cols) \notin columns THEN Head(cols)
    ELSE FirstMissingOfHead(<<>>, columns)

\* lines 37-39: the first required column that is missing, "" when none is
RECURSIVE FirstMissing(_, _)
FirstMissing(cols, columns) ==
    IF cols = <<>> THEN ""
    ELSE IF Head(cols) \notin columns THEN Head(cols)
    ELSE FirstMissing(Tail(cols), columns)

\* lines 44-48: the result columns as initialised
CombDefaults ==
    [is_triple_coincidence |-> FALSE, coincident_zone_score |-> NaNF,
     coincident_trend_r2 |-> NaNF, coincident_trend_slope |-> NaNF,
     coincident_trend_direction |-> "ninguna"]

\* line 51: df_res.index[df_res['is_key_candle']], ascending
RECURSIVE KeyIndices(_, _)
KeyIndices(rows, p) ==
    IF p >= NRows(rows) THEN <<>>
    ELSE (IF rows[p].is_key_candle THEN <<p>> ELSE <<>>) \o KeyIndices(rows, p + 1)

\* a window that also holds the key candle itself
WindowRowsInclusive(idx, lookback) == Max2(0, idx - lookback)..idx

\* lines 56-59: the positions of df_res.iloc[start_window:end_window]
WindowRows(idx, lookback) == Max2(0, idx - lookback)..(idx - 1)

\* lines 70-71: window_df[window_df[flag]].iloc[-1], the last flagged row
LastFlagged(rows, window, flag) ==
    CHOOSE p \in window : rows[p][flag] /\ \A x \in window : rows[x][flag] => x <= p

\* lines 54-76: the row of key candle idx after the loop body
CombineRow(rows, idx, lookback) ==
    LET window == WindowRows(idx, lookback)
        in_zone_in_window == \E p \in window : rows[p].in_accumulation_zone
        in_trend_in_window == \E p \in window : rows[p].is_in_trend
    IN IF in_zone_in_window /\ in_trend_in_window
       THEN LET last_zone_in_window == rows[LastFlagged(rows, window, "in_accumulation_zone")]
                last_trend_in_window == rows[LastFlagged(rows, window, "is_in_trend")]
            IN [rows[idx] EXCEPT
                   !.is_triple_coincidence = TRUE,
                   !.coincident_zone_score = last_zone_in_window.zone_quality_score,
                   !.coincident_trend_r2 = last_trend_in_window.trend_r_squared,
                   !.coincident_trend_slope = last_trend_in_window.trend_slope,
                   !.coincident_trend_direction = last_trend_in_window.trend_direction]
       ELSE rows[idx]

CombIdle ==
    /\ comb_df = [columns |-> {}, rows |-> <<>>]
    /\ combiner_config = [proximity_lookback |-> 0]
    /\ comb_res = <<>> /\ cpc = "idle" /\ key_candle_indices = <<>> /\ key_pos = 1
    /\ comb_error = ""

CombInit ==
    /\ \/ \E rows \in [0..(CombRows - 1) -> AnnotatedRows] :
              comb_df = [columns |-> SeqToSet(required_cols), rows |-> rows]
       \/ \E columns \in IncompleteColumnSets :
              comb_df = [columns |-> columns, rows |-> SampleRows]
    /\ combiner_config \in CombConfigs
    /\ comb_res = <<>> /\ cpc = "call" /\ key_candle_indices = <<>> /\ key_pos = 1
    /\ comb_error = ""

\* lines 33-51: the column check, the copy, the result columns, the key candles
CombineCall ==
    /\ cpc = "call"
    /\ LET missing == FirstMissing(required_cols, comb_df.columns)
       IN IF missing # ""
          THEN /\ cpc' = "raised"       \* raise ValueError
               /\ comb_error' = missing
               /\ UNCHANGED <<comb_res, key_candle_indices>>
          ELSE /\ comb_res' = [p \in DOMAIN comb_df.rows |-> CombDefaults @@ comb_df.rows[p]]
               /\ key_candle_indices' = KeyIndices(comb_df.rows, 0)
               /\ cpc' = "for_key"
               /\ UNCHANGED comb_error
    /\ key_pos' = 1
    /\ UNCHANGED <<comb_df, combiner_config>>
    /\ UNCHANGED notCombVars

\* lines 54-76: one key candle
CombineKey ==
    /\ cpc = "for_key"
    /\ key_pos <= Len(key_candle_indices)
    /\ LET idx == key_candle_indices[key_pos]
       IN comb_res' = [comb_res EXCEPT
                          ![idx] = CombineRow(comb_res, idx, combiner_config.proximity_lookback)]
    /\ key_pos' = key_pos + 1
    /\ UNCHANGED <<comb_df, combiner_config, cpc, key_candle_indices, comb_error>>
    /\ UNCHANGED notCombVars

\* line 78: return df_res
CombineReturn ==
    /\ cpc = "for_key"
    /\ key_pos > Len(key_candle_indices)
    /\ cpc' = "done"
    /\ UNCHANGED <<comb_df, combiner_config, comb_res, key_candle_indices, key_pos,
                   comb_error>>
    /\ UNCHANGED notCombVars

----------------------------------------------------------------------------
(* Bounds of the zone detector's inputs *)

ZoneBars == 4        \* rows of the candle tables
ZonePrices == 1..2    \* the price levels of the candles
ZoneVolumes == 1..2   \* the volume levels of the candles

ZoneCandles ==
    { [High |-> t[1], Low |-> t[2], Close |-> t[3], Volume |-> v] :
        t \in { u \in ZonePrices \X ZonePrices \X ZonePrices :
                  u[2] <= u[3] /\ u[3] <= u[1] },
        v \in ZoneVolumes }

ZoneConfigs ==
    { [volume_threshold |-> <<11, 10>>, atr_multiplier |-> <<1, 1>>,
       min_zone_periods |-> 2, volume_ma_period |-> 2, atr_period |-> 1],
      [volume_threshold |-> <<1, 1>>, atr_multiplier |-> <<1, 2>>,
       min_zone_periods |-> 3, volume_ma_period |-> 3, atr_period |-> 2],
      [volume_threshold |-> <<1, 2>>, atr_multiplier |-> <<1, 2>>,
       min_zone_periods |-> 1, volume_ma_period |-> 2, atr_period |-> 1] }

----------------------------------------------------------------------------
(* AccumulationZoneDetector *)

\* lines 16-20: the true range; the shifted Close is NaN at row 0 and max skips it
TrueRange(rows, p) ==
    LET high_low == rows[p].High - rows[p].Low
    IN IF p = 0 THEN high_low
       ELSE Max2(high_low, Max2(Abs(rows[p].High - rows[p - 1].Close),
                                Abs(rows[p].Low - rows[p - 1].Close)))

\* line 21: ewm(alpha=1/period, adjust=False): y(0) = x(0),
\* y(t) = ((period-1)*y(t-1) + x(t)) / period; the numerator over period^t
RECURSIVE EwmNum(_, _, _)
EwmNum(rows, p, period) ==
    IF p = 0 THEN TrueRange(rows, 0)
    ELSE (period - 1) * EwmNum(rows, p - 1, period) + TrueRange(rows, p) * Pow(period, p - 1)

\* lines 14-22: _calculate_atr; min_periods=period leaves the first period-1 rows NaN
calculate_atr(rows, period) ==
    [p \in DOMAIN rows |->
        IF p + 1 < period THEN NaNF ELSE Frac(EwmNum(rows, p, period), Pow(period, p))]

RECURSIVE SumVolume(_, _, _)
SumVolume(rows, lo, hi) ==
    IF lo > hi THEN 0 ELSE rows[hi].Volume + SumVolume(rows, lo, hi - 1)

\* line 56: Volume.rolling(window, min_periods=window // 2).mean().shift(1)
rolling_volume_ma(rows, window) ==
    [p \in DOMAIN rows |->
        LET count == Min2(p, window)
        IN IF p >= 1 /\ count >= window \div 2
           THEN Frac(SumVolume(rows, p - count, p - 1), count)
           ELSE NaNF]

\* Series.mean() of a fraction column over positions lo..hi, NaN cells skipped;
\* <<sum, count>>
RECURSIVE ColumnSum(_, _, _, _)
ColumnSum(rows, col, lo, hi) ==
    IF lo > hi THEN <<<<0, 1>>, 0>>
    ELSE LET rest == ColumnSum(rows, col, lo, hi - 1)
         IN IF IsNaNF(rows[hi][col]) THEN rest
            ELSE <<RatAdd(rest[1], rows[hi][col]), rest[2] + 1>>

ColumnMean(rows, col, lo, hi) ==
    LET sc == ColumnSum(rows, col, lo, hi)
    IN IF sc[2] = 0 THEN NaNF ELSE RatDiv(sc[1], <<sc[2], 1>>)

\* lines 25-39: _calculate_zone_quality over df.iloc[start:end].  The 1e-6 of
\* line 36 only matters for a zero price range, where the score reaches the
\* cap of 2.0; for a positive range it is below the resolution kept here.
calculate_zone_quality(rows, start, end, zone_stats) ==
    IF start >= end \/ zone_stats.periods = 0 THEN <<0, 1>>
    ELSE LET avg_atr == ColumnMean(rows, "atr", start, end - 1)
             avg_vol_ma == ColumnMean(rows, "volume_ma", start, end - 1)
         IN IF avg_atr[1] = 0 \/ avg_vol_ma[1] = 0 THEN <<0, 1>>
            ELSE LET volume_factor ==
                         RatDiv(<<zone_stats.volume_sum, 1>>,
                                RatMul(avg_vol_ma, <<zone_stats.periods, 1>>))
                     price_range_vs_atr ==
                         RatDiv(<<zone_stats.price_high - zone_stats.price_low, 1>>, avg_atr)
                     time_factor == RatMin(<<1, 1>>, Frac(zone_stats.periods, 20))
                 IN IF price_range_vs_atr[1] = 0 THEN <<2, 1>>
                    ELSE LET price_factor == RatDiv(<<1, 1>>, price_range_vs_atr)
                             score == RatAdd(RatAdd(RatMul(volume_factor, <<2, 5>>),
                                                    RatMul(price_factor, <<2, 5>>)),
                                             RatMul(time_factor, <<1, 5>>))
                         IN RatMin(<<2, 1>>, score)

\* a new zone that starts on the last candle of the zone before it
NewZoneOnBreakCandle(rows, i) ==
    [start_idx |-> Max2(0, i - 1), price_high |-> rows[i].High, price_low |-> rows[i].Low,
     volume_sum |-> rows[i].Volume, periods |-> 1]

\* a new zone whose first candle is not counted
NewZoneCountsFromZero(rows, i) ==
    [start_idx |-> i, price_high |-> rows[i].High, price_low |-> rows[i].Low,
     volume_sum |-> rows[i].Volume, periods |-> 0]

\* lines 69 and 85: a new one-candle zone
NewZone(rows, i) ==
    [start_idx |-> i, price_high |-> rows[i].High, price_low |-> rows[i].Low,
     volume_sum |-> rows[i].Volume, periods |-> 1]

\* the slice without its last candle
FlagZoneBeforeLast(rows, start, last, quality_score) ==
    [p \in DOMAIN rows |->
        IF start <= p /\ p < last
        THEN [rows[p] EXCEPT !.in_accumulation_zone = TRUE,
                             !.zone_quality_score = quality_score]
        ELSE rows[p]]

\* lines 83 and 91: df_res.loc[start:last, [...]] = True, quality_score
\* (label slice, both ends included, clipped to the table)
FlagZone(rows, start, last, quality_score) ==
    [p \in DOMAIN rows |->
        IF start <= p /\ p <= last
        THEN [rows[p] EXCEPT !.in_accumulation_zone = TRUE,
                             !.zone_quality_score = quality_score]
        ELSE rows[p]]

\* the zone is retained with one period less than required
RetainedOneShort(zone, min_zone_periods) == zone.periods + 1 >= min_zone_periods

\* lines 79 and 87: current_zone['periods'] >= min_zone_periods
Retained(zone, min_zone_periods) == zone.periods >= min_zone_periods

\* the closing zone takes the candle that broke it
CloseZoneIncludesBreak(rows, zone, end, config) ==
    IF Retained(zone, config.min_zone_periods)
    THEN FlagZone(rows, zone.start_idx, end,
                  calculate_zone_quality(rows, zone.start_idx, end, zone))
    ELSE rows

\* lines 79-83 and 87-91: the table after the zone closes before row `end`
CloseZone(rows, zone, end, config) ==
    IF Retained(zone, config.min_zone_periods)
    THEN FlagZone(rows, zone.start_idx, end - 1,
                  calculate_zone_quality(rows, zone.start_idx, end, zone))
    ELSE rows

ClosedRecord(zone, end, config) ==
    [start_idx |-> zone.start_idx, end_idx |-> end - 1, periods |-> zone.periods,
     retained |-> Retained(zone, config.min_zone_periods)]

\* lines 63-85: the body of the loop at row i; [current_zone, rows, closed]
ZoneLoopBody(cz, rows, i, config) ==
    IF IsNaNF(rows[i].atr) \/ IsNaNF(rows[i].volume_ma)
    THEN [current_zone |-> cz, rows |-> rows, closed |-> <<>>]     \* continue
    ELSE
      LET volume_condition ==
              RatGT(<<rows[i].Volume, 1>>, RatMul(rows[i].volume_ma, config.volume_threshold))
      IN IF cz = <<>>
         THEN [current_zone |-> IF volume_condition THEN <<NewZone(rows, i)>> ELSE <<>>,
               rows |-> rows, closed |-> <<>>]
         ELSE
           LET zone == cz[1]
               current_high == Max2(zone.price_high, rows[i].High)
               current_low == Min2(zone.price_low, rows[i].Low)
               zone_height == current_high - current_low
               max_height_allowed == RatMul(rows[i].atr, config.atr_multiplier)
           IN IF ~RatGT(<<zone_height, 1>>, max_height_allowed)
              THEN [current_zone |->
                        <<[zone EXCEPT !.price_high = current_high,
                                       !.price_low = current_low,
                                       !.volume_sum = zone.volume_sum + rows[i].Volume,
                                       !.periods = zone.periods + 1]>>,
                    rows |-> rows, closed |-> <<>>]
              ELSE [current_zone |-> IF volume_condition THEN <<NewZone(rows, i)>> ELSE <<>>,
                    rows |-> CloseZone(rows, zone, i, config),
                    closed |-> <<ClosedRecord(zone, i, config)>>]

\* lines 53-59: the copy with the atr, volume_ma and result columns
ZonePrepare(rows, config) ==
    LET atr == calculate_atr(rows, config.atr_period)
        volume_ma == rolling_volume_ma(rows, config.volume_ma_period)
    IN [p \in DOMAIN rows |->
           [atr |-> atr[p], volume_ma |-> volume_ma[p],
            in_accumulation_zone |-> FALSE, zone_quality_score |-> <<0, 1>>] @@ rows[p]]

ZoneIdle ==
    /\ zone_df = <<>> /\ zone_config = <<>> /\ zone_res = <<>> /\ current_zone = <<>>
    /\ zi = 0 /\ zpc = "idle" /\ zones_closed = <<>>

ZoneInit ==
    /\ zone_df \in [0..(ZoneBars - 1) -> ZoneCandles]
    /\ zone_config \in ZoneConfigs
    /\ zone_res = <<>> /\ current_zone = <<>> /\ zi = 0 /\ zpc = "call"
    /\ zones_closed = <<>>

\* lines 53-60
ZoneCall ==
    /\ zpc = "call"
    /\ zone_res' = ZonePrepare(zone_df, zone_config)
    /\ current_zone' = <<>>
    /\ zi' = 0
    /\ zpc' = "loop"
    /\ UNCHANGED <<zone_df, zone_config, zones_closed>>
    /\ UNCHANGED notZoneVars

\* lines 62-85: one candle
ZoneCandle ==
    /\ zpc = "loop"
    /\ zi < NRows(zone_res)
    /\ LET r == ZoneLoopBody(current_zone, zone_res, zi, zone_config)
       IN /\ current_zone' = r.current_zone
          /\ zone_res' = r.rows
          /\ zones_closed' = zones_closed \o r.closed
    /\ zi' = zi + 1
    /\ UNCHANGED <<zone_df, zone_config, zpc>>
    /\ UNCHANGED notZoneVars

\* lines 87-93: the zone still open at the end of the series, and the return
ZoneReturn ==
    /\ zpc = "loop"
    /\ zi >= NRows(zone_res)
    /\ IF current_zone # <<>>
       THEN /\ zone_res' = CloseZone(zone_res, current_zone[1], NRows(zone_res), zone_config)
            /\ zones_closed' = zones_closed \o
                   <<ClosedRecord(current_zone[1], NRows(zone_res), zone_config)>>
       ELSE UNCHANGED <<zone_res, zones_closed>>
    /\ zpc' = "done"
    /\ UNCHANGED <<zone_df, zone_config, current_zone, zi>>
    /\ UNCHANGED notZoneVars

----------------------------------------------------------------------------
(* TrendDetector *)

\* highs.iloc[i] / lows.iloc[j] - 1 > threshold, for positive prices
RisesBy(high_i, low_j, threshold) ==
    high_i * threshold[2] > low_j * (threshold[2] + threshold[1])

\* lows.iloc[i] / highs.iloc[j] - 1 < -threshold, for positive prices
FallsBy(low_i, high_j, threshold) ==
    low_i * threshold[2] < high_j * (threshold[2] - threshold[1])

\* lines 23-25: the walk's state before the first candle
ZigzagStart == [pivots |-> <<0>>, last_pivot_idx |-> 0, trend |-> 0]

\* the walk with the reversal tested before the new extreme
ZigzagStepReversalFirst(st, rows, i, threshold) ==
    LET last == st.last_pivot_idx
    IN IF st.trend = 0
       THEN IF RisesBy(rows[i].High, rows[last].Low, threshold)
            THEN [st EXCEPT !.trend = 1, !.last_pivot_idx = i]
            ELSE IF FallsBy(rows[i].Low, rows[last].High, threshold)
            THEN [st EXCEPT !.trend = -1, !.last_pivot_idx = i]
            ELSE st
       ELSE IF st.trend = 1
       THEN IF FallsBy(rows[i].Low, rows[last].High, threshold)
            THEN [pivots |-> Append(st.pivots, last), trend |-> -1, last_pivot_idx |-> i]
            ELSE IF rows[i].High > rows[last].High
            THEN [st EXCEPT !.last_pivot_idx = i]
            ELSE st
       ELSE IF RisesBy(rows[i].High, rows[last].Low, threshold)
            THEN [pivots |-> Append(st.pivots, last), trend |-> 1, last_pivot_idx |-> i]
            ELSE IF rows[i].Low < rows[last].Low
            THEN [st EXCEPT !.last_pivot_idx = i]
            ELSE st

\* the walk recording the candle of the reversal instead of the extreme
ZigzagStepRecordsCandle(st, rows, i, threshold) ==
    LET last == st.last_pivot_idx
    IN IF st.trend = 0
       THEN IF RisesBy(rows[i].High, rows[last].Low, threshold)
            THEN [st EXCEPT !.trend = 1, !.last_pivot_idx = i]
            ELSE IF FallsBy(rows[i].Low, rows[last].High, threshold)
            THEN [st EXCEPT !.trend = -1, !.last_pivot_idx = i]
            ELSE st
       ELSE IF st.trend = 1
       THEN IF rows[i].High > rows[last].High
            THEN [st EXCEPT !.last_pivot_idx = i]
            ELSE IF FallsBy(rows[i].Low, rows[last].High, threshold)
            THEN [pivots |-> Append(st.pivots, i), trend |-> -1, last_pivot_idx |-> i]
            ELSE st
       ELSE IF rows[i].Low < rows[last].Low
            THEN [st EXCEPT !.last_pivot_idx = i]
            ELSE IF RisesBy(rows[i].High, rows[last].Low, threshold)
            THEN [pivots |-> Append(st.pivots, i), trend |-> 1, last_pivot_idx |-> i]
            ELSE st

\* lines 31-54: the body of the walk at candle i
ZigzagStep(st, rows, i, threshold) ==
    LET last == st.last_pivot_idx
    IN IF st.trend = 0
       THEN IF RisesBy(rows[i].High, rows[last].Low, threshold)
            THEN [st EXCEPT !.trend = 1, !.last_pivot_idx = i]
            ELSE IF FallsBy(rows[i].Low, rows[last].High, threshold)
            THEN [st EXCEPT !.trend = -1, !.last_pivot_idx = i]
            ELSE st
       ELSE IF st.trend = 1
       THEN IF rows[i].High > rows[last].High
            THEN [st EXCEPT !.last_pivot_idx = i]
            ELSE IF FallsBy(rows[i].Low, rows[last].High, threshold)
            THEN [pivots |-> Append(st.pivots, last), trend |-> -1, last_pivot_idx |-> i]
            ELSE st
       ELSE IF rows[i].Low < rows[last].Low
            THEN [st EXCEPT !.last_pivot_idx = i]
            ELSE IF RisesBy(rows[i].High, rows[last].Low, threshold)
            THEN [pivots |-> Append(st.pivots, last), trend |-> 1, last_pivot_idx |-> i]
            ELSE st

\* line 30: for i in range(1, len(df)); the state after candle i
RECURSIVE ZigzagWalk(_, _, _)
ZigzagWalk(rows, i, threshold) ==
    IF i <= 0 THEN ZigzagStart
    ELSE ZigzagStep(ZigzagWalk(rows, i - 1, threshold), rows, i, threshold)

\* sorted(list(set(...))): the elements of a set of integers, ascending
RECURSIVE SortedSet(_)
SortedSet(S) ==
    IF S = {} THEN <<>>
    ELSE LET m == CHOOSE x \in S : \A y \in S : x <= y
         IN <<m>> \o SortedSet(S \ {m})

\* the last pivot is appended without the membership test, duplicates are kept
ZigzagFinishKeepsDuplicates(st) == Append(st.pivots, st.last_pivot_idx)

\* lines 56-60: the last pivot, then the de-duplicated ascending list
ZigzagFinish(st) ==
    SortedSet(SeqToSet(IF st.last_pivot_idx \in SeqToSet(st.pivots)
                       THEN st.pivots
                       ELSE Append(st.pivots, st.last_pivot_idx)))

\* lines 15-60: _detect_zigzag_pivots
detect_zigzag_pivots(rows, threshold) ==
    ZigzagFinish(ZigzagWalk(rows, NRows(rows) - 1, threshold))

\* np.sum of f[0..hi]
RECURSIVE SumTo(_, _)
SumTo(f, hi) == IF hi < 0 THEN 0 ELSE f[hi] + SumTo(f, hi - 1)

\* the regression without the test for a flat segment: the fit of a constant
\* Close has slope 0, ss_total is 0 and line 84 gives r_squared 0
calculate_segment_regression_unguarded(rows, start, end) ==
    LET m == end - start + 1
    IN IF m < 2 THEN [slope |-> <<0, 1>>, r_squared |-> <<0, 1>>, direction |-> "plana"]
       ELSE [slope |-> <<0, 1>>, r_squared |-> <<0, 1>>, direction |-> "bajista"]

\* lines 63-88: _calculate_segment_regression of df.iloc[start:end+1].  The
\* least-squares slope is Sxy/Sxx and 1 - ss_residual/ss_total is
\* Sxy^2 / (Sxx * Syy), with the sums scaled by the segment length m.
calculate_segment_regression(rows, start, end) ==
    LET m == end - start + 1
    IN IF m < 2 THEN [slope |-> <<0, 1>>, r_squared |-> <<0, 1>>, direction |-> "plana"]
       ELSE IF \A p \in start..end : rows[p].Close = rows[start].Close
       THEN [slope |-> <<0, 1>>, r_squared |-> <<1, 1>>, direction |-> "plana"]
       ELSE LET y == [x \in 0..(m - 1) |-> rows[start + x].Close]
                sx == SumTo([x \in 0..(m - 1) |-> x], m - 1)
                sy == SumTo(y, m - 1)
                sxx == SumTo([x \in 0..(m - 1) |-> x * x], m - 1)
                syy == SumTo([x \in 0..(m - 1) |-> y[x] * y[x]], m - 1)
                sxy == SumTo([x \in 0..(m - 1) |-> x * y[x]], m - 1)
                Sxy == m * sxy - sx * sy
                Sxx == m * sxx - sx * sx
                Syy == m * syy - sy * sy
                slope == Frac(Sxy, Sxx)
            IN [slope |-> slope,
                r_squared |-> Frac(Sxy * Sxy, Sxx * Syy),
                direction |-> IF slope[1] > 0 THEN "alcista" ELSE "bajista"]

\* lines 105-109: the result columns as initialised
TrendDefaults ==
    [is_in_trend |-> FALSE, trend_id |-> 0, trend_r_squared |-> <<0, 1>>,
     trend_slope |-> <<0, 1>>, trend_direction |-> "ninguna"]

\* lines 134-138: df_res.loc[start_idx:end_idx, ...] = ...
AnnotateTrend(rows, start_idx, end_idx, trend_counter, regression_stats) ==
    [p \in DOMAIN rows |->
        IF start_idx <= p /\ p <= end_idx
        THEN [rows[p] EXCEPT !.is_in_trend = TRUE,
                             !.trend_id = trend_counter,
                             !.trend_r_squared = regression_stats.r_squared,
                             !.trend_slope = regression_stats.slope,
                             !.trend_direction = regression_stats.direction]
        ELSE rows[p]]

\* line 124, negated: the segment is not skipped
SegmentLongEnough(start_idx, end_idx, min_trend_bars) ==
    ~((end_idx - start_idx + 1) < min_trend_bars)

\* the body with trend_counter advanced for a skipped pair as well
SegmentStepCountsSkipped(st, pivots, i, min_trend_bars) ==
    LET start_idx == pivots[i + 1]
        end_idx == pivots[i + 2]
    IN IF ~SegmentLongEnough(start_idx, end_idx, min_trend_bars)
       THEN [st EXCEPT !.trend_counter = st.trend_counter + 1]
       ELSE [rows |-> AnnotateTrend(st.rows, start_idx, end_idx, st.trend_counter + 1,
                          calculate_segment_regression(st.rows, start_idx, end_idx)),
             trend_counter |-> st.trend_counter + 1]

\* lines 119-138: the body of the loop at pivot pair i (zero-based);
\* [rows, trend_counter]
SegmentStep(st, pivots, i, min_trend_bars) ==
    LET start_idx == pivots[i + 1]
        end_idx == pivots[i + 2]
    IN IF ~SegmentLongEnough(start_idx, end_idx, min_trend_bars)
       THEN st                                                   \* continue
       ELSE [rows |-> AnnotateTrend(st.rows, start_idx, end_idx, st.trend_counter + 1,
                          calculate_segment_regression(st.rows, start_idx, end_idx)),
             trend_counter |-> st.trend_counter + 1]

\* the loop with a trend_counter that is not reset between two calls
RECURSIVE SegmentLoopKeepsCounter(_, _, _, _)
SegmentLoopKeepsCounter(rows, pivots, i, min_trend_bars) ==
    IF i < 0 THEN [rows |-> rows, trend_counter |-> Len(first_out)]
    ELSE SegmentStep(SegmentLoopKeepsCounter(rows, pivots, i - 1, min_trend_bars), pivots, i,
                     min_trend_bars)

\* line 119: for i in range(len(pivots) - 1); the state after pair i
RECURSIVE SegmentLoop(_, _, _, _)
SegmentLoop(rows, pivots, i, min_trend_bars) ==
    IF i < 0 THEN [rows |-> rows, trend_counter |-> 0]
    ELSE SegmentStep(SegmentLoop(rows, pivots, i - 1, min_trend_bars), pivots, i,
                     min_trend_bars)

\* lines 91-140: TrendDetector.detect
TrendDetect(rows, config) ==
    LET df_res == [p \in DOMAIN rows |-> TrendDefaults @@ rows[p]]
        pivots == detect_zigzag_pivots(df_res, config.zigzag_threshold)
    IN IF Len(pivots) < 2 THEN df_res
       ELSE SegmentLoop(df_res, pivots, Len(pivots) - 2, config.min_trend_bars).rows

\* lines 62-91 of the zone detector as one pass: the state after row i
RECURSIVE ZoneLoop(_, _, _)
ZoneLoop(rows, i, config) ==
    IF i < 0 THEN [current_zone |-> <<>>, rows |-> rows]
    ELSE LET before == ZoneLoop(rows, i - 1, config)
             r == ZoneLoopBody(before.current_zone, before.rows, i, config)
         IN [current_zone |-> r.current_zone, rows |-> r.rows]

\* lines 42-93: AccumulationZoneDetector.detect
ZoneDetect(rows, config) ==
    LET st == ZoneLoop(ZonePrepare(rows, config), NRows(rows) - 1, config)
    IN IF st.current_zone # <<>>
       THEN CloseZone(st.rows, st.current_zone[1], NRows(rows), config)
       ELSE st.rows

----------------------------------------------------------------------------
(* TrendDetector.detect, step by step *)

TrendBars == 3        \* the candle tables have 0..TrendBars rows
TrendPrices == 1..3   \* the price levels of the candles

TrendCandles ==
    { [High |-> t[1], Low |-> t[2], Close |-> t[3]] :
        t \in { u \in TrendPrices \X TrendPrices \X TrendPrices :
                  u[2] <= u[3] /\ u[3] <= u[1] } }

TrendConfigs ==
    { [zigzag_threshold |-> <<1, 50>>, min_trend_bars |-> 2],
      [zigzag_threshold |-> <<1, 2>>, min_trend_bars |-> 3] }

\* Scenario E: closes rising in steps of about 5%, threshold 0.02
ScenarioE ==
    (0 :> Row(101, 99, 100)) @@ (1 :> Row(106, 104, 105)) @@ (2 :> Row(111, 109, 110))
        @@ (3 :> Row(117, 115, 116)) @@ (4 :> Row(123, 121, 122))
ScenarioEConfig == [zigzag_threshold |-> <<1, 50>>, min_trend_bars |-> 5]

\* a rise of one candle, then a fall of two: pivots 0, 1 and 3
UpDownTable ==
    (0 :> Row(10, 10, 10)) @@ (1 :> Row(20, 20, 20)) @@ (2 :> Row(8, 8, 8))
        @@ (3 :> Row(6, 6, 6))

TrendIdle ==
    /\ trend_df = <<>> /\ trend_config = <<>> /\ trend_res = <<>>
    /\ zz = ZigzagStart /\ tzi = 1 /\ trend_pivots = <<>> /\ seg_i = 0 /\ t_counter = 0
    /\ segments = <<>> /\ tpc = "idle"

TrendInit ==
    /\ \/ /\ \E n \in 0..TrendBars : trend_df \in [0..(n - 1) -> TrendCandles]
          /\ trend_config \in TrendConfigs
       \/ /\ trend_df = ScenarioE
          /\ trend_config = ScenarioEConfig
       \/ /\ trend_df = UpDownTable
          /\ trend_config \in TrendConfigs
    /\ trend_res = <<>>
    /\ zz = ZigzagStart /\ tzi = 1 /\ trend_pivots = <<>> /\ seg_i = 0 /\ t_counter = 0
    /\ segments = <<>> /\ tpc = "call"

\* lines 102-112 and 23-25: the copy with the result columns, the walk's start
TrendCall ==
    /\ tpc = "call"
    /\ trend_res' = [p \in DOMAIN trend_df |-> TrendDefaults @@ trend_df[p]]
    /\ zz' = ZigzagStart
    /\ tzi' = 1
    /\ tpc' = "walk"
    /\ UNCHANGED <<trend_df, trend_config, trend_pivots, seg_i, t_counter, segments>>
    /\ UNCHANGED notTrendVars

\* lines 30-54: one candle of the walk
ZigzagCandle ==
    /\ tpc = "walk"
    /\ tzi < NRows(trend_res)
    /\ zz' = ZigzagStep(zz, trend_res, tzi, trend_config.zigzag_threshold)
    /\ tzi' = tzi + 1
    /\ UNCHANGED <<trend_df, trend_config, trend_res, trend_pivots, seg_i, t_counter,
                   segments, tpc>>
    /\ UNCHANGED notTrendVars

\* lines 56-60 and 112-117: the returned list; fewer than two pivots end detect
ZigzagReturn ==
    /\ tpc = "walk"
    /\ tzi >= NRows(trend_res)
    /\ trend_pivots' = ZigzagFinish(zz)
    /\ tpc' = IF Len(trend_pivots') < 2 THEN "done" ELSE "segments"
    /\ seg_i' = 0
    /\ t_counter' = 0
    /\ UNCHANGED <<trend_df, trend_config, trend_res, zz, tzi, segments>>
    /\ UNCHANGED notTrendVars

\* lines 119-138: one pair of consecutive pivots
SegmentIter ==
    /\ tpc = "segments"
    /\ seg_i <= Len(trend_pivots) - 2
    /\ LET start_idx == trend_pivots[seg_i + 1]
           end_idx == trend_pivots[seg_i + 2]
           r == SegmentStep([rows |-> trend_res, trend_counter |-> t_counter],
                            trend_pivots, seg_i, trend_config.min_trend_bars)
       IN /\ trend_res' = r.rows
          /\ t_counter' = r.trend_counter
          /\ segments' =
                IF SegmentLongEnough(start_idx, end_idx, trend_config.min_trend_bars)
                THEN Append(segments,
                            [start_idx |-> start_idx, end_idx |-> end_idx,
                             trend_id |-> r.trend_counter,
                             stats |-> calculate_segment_regression(trend_res, start_idx,
                                                                    end_idx)])
                ELSE segments
    /\ seg_i' = seg_i + 1
    /\ UNCHANGED <<trend_df, trend_config, zz, tzi, trend_pivots, tpc>>
    /\ UNCHANGED notTrendVars

\* line 140: return df_res
TrendReturn ==
    /\ tpc = "segments"
    /\ seg_i > Len(trend_pivots) - 2
    /\ tpc' = "done"
    /\ UNCHANGED <<trend_df, trend_config, trend_res, zz, tzi, trend_pivots, seg_i,
                   t_counter, segments>>
    /\ UNCHANGED notTrendVars

----------------------------------------------------------------------------
(* SignalDetector.detect_key_candles *)

\* quantile(q) of an ascending sequence, linear interpolation between the
\* neighbours of position q * (k - 1)
Quantile(sorted_values, q) ==
    LET k == Len(sorted_values)
        h == q[1] * (k - 1)
        lower == h \div q[2]
        rest == h % q[2]
    IN IF rest = 0 THEN <<sorted_values[lower + 1], 1>>
       ELSE RatAdd(<<sorted_values[lower + 1], 1>>,
                   RatMul(<<sorted_values[lower + 2] - sorted_values[lower + 1], 1>>,
                          Frac(rest, q[2])))

\* the rolling quantile without the shift: the window of row p ends at p
rolling_volume_threshold_unshifted(rows, window, q) ==
    [p \in DOMAIN rows |->
        LET count == Min2(p + 1, window)
        IN IF count >= window \div 2
           THEN Quantile(Sorted([x \in 1..count |-> rows[p - count + x].Volume]), q)
           ELSE NaNF]

\* the shifted rolling quantile with min_periods = 1
rolling_volume_threshold_any_history(rows, window, q) ==
    [p \in DOMAIN rows |->
        LET count == Min2(p, window)
        IN IF p >= 1
           THEN Quantile(Sorted([x \in 1..count |-> rows[p - count + x - 1].Volume]), q)
           ELSE NaNF]

\* lines 36-39: Volume.rolling(window, min_periods=window // 2).quantile(q).shift(1)
rolling_volume_threshold(rows, window, q) ==
    [p \in DOMAIN rows |->
        LET count == Min2(p, window)
        IN IF p >= 1 /\ count >= window \div 2
           THEN Quantile(Sorted([x \in 1..count |-> rows[p - count + x - 1].Volume]), q)
           ELSE NaNF]

\* lines 42-48: body_percentage, 100 for a flat candle
BodyPercentage(row) ==
    IF row.High - row.Low = 0 THEN <<100, 1>>
    ELSE Frac(100 * Abs(row.Close - row.Open), row.High - row.Low)

\* the two conditions joined by `or`
DetectKeyCandlesEither(rows, kcfg) ==
    LET volume_threshold ==
            rolling_volume_threshold(rows, kcfg.volume_lookback,
                                     Frac(kcfg.volume_percentile_threshold, 100))
    IN [p \in DOMAIN rows |->
           LET high_volume_condition ==
                   /\ ~IsNaNF(volume_threshold[p])
                   /\ RatGE(<<rows[p].Volume, 1>>, volume_threshold[p])
               small_body_condition ==
                   ~RatGT(BodyPercentage(rows[p]), <<kcfg.body_percentile_threshold, 1>>)
           IN [volume_threshold |-> volume_threshold[p],
               body_size |-> Abs(rows[p].Close - rows[p].Open),
               candle_range |-> rows[p].High - rows[p].Low,
               body_percentage |-> BodyPercentage(rows[p]),
               is_key_candle |-> high_volume_condition \/ small_body_condition] @@ rows[p]]

\* lines 33-55: detect_key_candles
DetectKeyCandles(rows, kcfg) ==
    LET volume_threshold ==
            rolling_volume_threshold(rows, kcfg.volume_lookback,
                                     Frac(kcfg.volume_percentile_threshold, 100))
    IN [p \in DOMAIN rows |->
           LET high_volume_condition ==
                   /\ ~IsNaNF(volume_threshold[p])
                   /\ RatGE(<<rows[p].Volume, 1>>, volume_threshold[p])
               small_body_condition ==
                   ~RatGT(BodyPercentage(rows[p]), <<kcfg.body_percentile_threshold, 1>>)
           IN [volume_threshold |-> volume_threshold[p],
               body_size |-> Abs(rows[p].Close - rows[p].Open),
               candle_range |-> rows[p].High - rows[p].Low,
               body_percentage |-> BodyPercentage(rows[p]),
               is_key_candle |-> high_volume_condition /\ small_body_condition] @@ rows[p]]

----------------------------------------------------------------------------
(* SignalDetector.detect_key_candles on a table and on a table that differs
   from it in one candle *)

KeyBars == 3         \* rows of the candle tables
KeyVolumes == 1..3   \* the volume levels of the candles

\* a flat candle (High = Low) and a candle whose body is half its range
KeyShapes ==
    { [Open |-> 2, High |-> 2, Low |-> 2, Close |-> 2],
      [Open |-> 1, High |-> 3, Low |-> 1, Close |-> 2] }

KeyCandles == { [Volume |-> v] @@ sh : v \in KeyVolumes, sh \in KeyShapes }

KeyConfigs ==
    { [volume_lookback |-> 2, volume_percentile_threshold |-> 50,
       body_percentile_threshold |-> 50],
      [volume_lookback |-> 4, volume_percentile_threshold |-> 80,
       body_percentile_threshold |-> 50],
      [volume_lookback |-> 1, volume_percentile_threshold |-> 50,
       body_percentile_threshold |-> 50],
      [volume_lookback |-> 2, volume_percentile_threshold |-> 50,
       body_percentile_threshold |-> 30] }

KeyIdle ==
    /\ key_df = <<>> /\ key_other = <<>> /\ key_changed = 0 /\ key_config = <<>>
    /\ key_res = <<>> /\ key_res_other = <<>> /\ kpc = "idle"

KeyInit ==
    /\ key_df \in [0..(KeyBars - 1) -> KeyCandles]
    /\ key_changed \in 0..(KeyBars - 1)
    /\ \E c \in KeyCandles :
          /\ c # key_df[key_changed]
          /\ key_other = [key_df EXCEPT ![key_changed] = c]
    /\ key_config \in KeyConfigs
    /\ key_res = <<>> /\ key_res_other = <<>> /\ kpc = "call"

\* lines 33-55: detect_key_candles(key_df, **key_config)
KeyDetect ==
    /\ kpc = "call"
    /\ key_res' = DetectKeyCandles(key_df, key_config)
    /\ kpc' = "call_other"
    /\ UNCHANGED <<key_df, key_other, key_changed, key_config, key_res_other>>
    /\ UNCHANGED notKeyVars

\* lines 33-55: detect_key_candles(key_other, **key_config)
KeyDetectOther ==
    /\ kpc = "call_other"
    /\ key_res_other' = DetectKeyCandles(key_other, key_config)
    /\ kpc' = "done"
    /\ UNCHANGED <<key_df, key_other, key_changed, key_config, key_res>>
    /\ UNCHANGED notKeyVars

----------------------------------------------------------------------------
(* SignalCombiner.combine and SignalScorer.score as one pass *)

\* lines 54-76 of the combiner: the table after the key candles up to position k
RECURSIVE CombineLoop(_, _, _, _)
CombineLoop(rows, keys, k, lookback) ==
    IF k = 0 THEN rows
    ELSE LET before == CombineLoop(rows, keys, k - 1, lookback)
         IN [before EXCEPT ![keys[k]] = CombineRow(before, keys[k], lookback)]

\* lines 41-78 of the combiner, the required columns being present
Combine(rows, lookback) ==
    LET df_res == [p \in DOMAIN rows |-> CombDefaults @@ rows[p]]
        keys == KeyIndices(df_res, 0)
    IN CombineLoop(df_res, keys, Len(keys), lookback)

\* lines 12-16: _normalize
normalize(value, min_val, max_val) ==
    IF max_val = min_val THEN <<1, 2>>
    ELSE RatMax(<<0, 1>>, RatMin(<<1, 1>>, RatDiv(RatSub(value, min_val),
                                                  RatSub(max_val, min_val))))

\* lines 19-38: _score_candle
score_candle(candle_row) ==
    LET vol_score == normalize(<<candle_row.Volume, 1>>, candle_row.volume_threshold,
                               RatMul(candle_row.volume_threshold, <<2, 1>>))
        body_perc == candle_row.body_percentage
        morph_score ==
            IF RatGE(body_perc, <<15, 1>>) /\ RatGE(<<40, 1>>, body_perc) THEN <<1, 1>>
            ELSE IF RatGT(body_perc, <<40, 1>>) /\ RatGE(<<60, 1>>, body_perc) THEN <<4, 5>>
            ELSE IF RatGT(body_perc, <<5, 1>>) /\ RatGT(<<15, 1>>, body_perc) THEN <<3, 5>>
            ELSE <<3, 10>>
    IN RatAdd(RatMul(vol_score, <<3, 5>>), RatMul(morph_score, <<2, 5>>))

\* lines 41-46: _score_zone
score_zone(zone_score_value) == normalize(zone_score_value, <<9, 20>>, <<17, 20>>)

\* lines 49-69: _score_trend
score_trend(trend_r2, trend_direction, trend_slope) ==
    LET r2_score == IF RatGE(trend_r2, <<3, 5>>) THEN <<13, 10>>
                    ELSE IF RatGE(trend_r2, <<9, 20>>) THEN <<1, 1>>
                    ELSE <<9, 10>>
        direction_factor == IF trend_direction = "alcista" THEN <<23, 20>> ELSE <<9, 10>>
        slope_factor == normalize(<<Abs(trend_slope[1]), trend_slope[2]>>, <<0, 1>>, <<1, 2>>)
        final_trend_score == RatMul(RatMul(r2_score, direction_factor), slope_factor)
    IN RatMin(<<3, 2>>, final_trend_score)

\* lines 80-85: the score columns as initialised
ScoreDefaults ==
    [candle_score |-> NaNF, zone_score |-> NaNF, trend_score |-> NaNF,
     base_score |-> NaNF, advanced_score |-> NaNF, final_score |-> NaNF]

\* lines 88-125: the scores of one signal row
ScoreRow(signal_row) ==
    LET candle_score == score_candle(signal_row)
        zone_score == score_zone(signal_row.coincident_zone_score)
        trend_score == score_trend(signal_row.coincident_trend_r2,
                                   signal_row.coincident_trend_direction,
                                   signal_row.coincident_trend_slope)
        base_score == RatAdd(RatAdd(RatMul(candle_score, <<3, 10>>),
                                    RatMul(zone_score, <<7, 20>>)),
                             RatMul(trend_score, <<7, 20>>))
        reliability_bonus == IF RatGT(signal_row.coincident_trend_r2, <<3, 4>>)
                             THEN <<3, 20>> ELSE <<0, 1>>
        profit_potential ==
            IF signal_row.coincident_trend_direction = "alcista"
            THEN IF signal_row.Volume > 80 THEN <<17, 20>>
                 ELSE IF signal_row.Volume > 50 THEN <<3, 4>>
                 ELSE <<3, 5>>
            ELSE <<3, 5>>
        advanced_score == RatAdd(RatMul(reliability_bonus, <<1, 2>>),
                                 RatMul(profit_potential, <<1, 2>>))
        final_score == RatAdd(RatMul(base_score, <<7, 10>>), RatMul(advanced_score, <<3, 10>>))
    IN [signal_row EXCEPT !.candle_score = candle_score, !.zone_score = zone_score,
                          !.trend_score = trend_score, !.base_score = base_score,
                          !.advanced_score = advanced_score, !.final_score = final_score]

\* lines 72-127: SignalScorer.score; each signal row is scored from its own cells
Score(rows) ==
    [p \in DOMAIN rows |->
        LET row == ScoreDefaults @@ rows[p]
        IN IF row.is_triple_coincidence THEN ScoreRow(row) ELSE row]

----------------------------------------------------------------------------
(* Bounds of the orchestrator's inputs *)

PipeBars == 3        \* rows of the candle tables
PipePrices == 1..2    \* the price levels of the candles
PipeVolumes == 1..2   \* the volume levels of the candles

PipeCandles ==
    { [Open |-> t[1], High |-> t[2], Low |-> t[3], Close |-> t[4], Volume |-> v] :
        t \in { u \in PipePrices \X PipePrices \X PipePrices
                      \X PipePrices :
                  /\ u[3] <= u[1] /\ u[1] <= u[2]
                  /\ u[3] <= u[4] /\ u[4] <= u[2] },
        v \in PipeVolumes }

\* the detector settings, and the two shapes of the 'combiner' mapping: with
\* proximity_lookback alone, and with the keys of train_oracle.py (lines 51-55)
DetectorConfig ==
    [key_candle |-> [volume_lookback |-> 2, volume_percentile_threshold |-> 50,
                     body_percentile_threshold |-> 50],
     accumulation_zone |-> [volume_threshold |-> <<11, 10>>, atr_multiplier |-> <<1, 1>>,
                            min_zone_periods |-> 1, volume_ma_period |-> 2,
                            atr_period |-> 1],
     trend |-> [zigzag_threshold |-> <<1, 2>>, min_trend_bars |-> 2]]

PipeConfigs ==
    { DetectorConfig @@ [combiner |-> c] :
        c \in { [proximity_lookback |-> 2],
                [proximity_lookback |-> 2, min_zone_quality |-> <<0, 1>>,
                 min_trend_r2 |-> <<0, 1>>] } }

PipeLabelingConfig ==
    [profit_factors |-> <<1, 2>>, stop_loss_factor |-> 1, time_limit |-> 2,
     drawdown_threshold |-> <<1, 2>>]

----------------------------------------------------------------------------
(* TripleCoincidenceOrchestrator.run *)

Columns(rows) == DOMAIN rows[0]

\* the keyword parameters of SignalCombiner.combine (signal_combiner.py, lines 12-15)
CombineKeywords == {"proximity_lookback"}

\* the columns each step of run reads from df_processed
StageReads(stage) ==
    CASE stage = "key_candles" -> {"Open", "High", "Low", "Close", "Volume"}
      [] stage = "zones" -> {"High", "Low", "Close", "Volume"}
      [] stage = "trends" -> {"High", "Low", "Close"}
      [] stage = "combine" -> SeqToSet(required_cols)
      [] stage = "score" -> {"is_triple_coincidence", "Volume", "volume_threshold",
                             "body_percentage", "coincident_zone_score",
                             "coincident_trend_r2", "coincident_trend_direction",
                             "coincident_trend_slope"}
      [] stage = "labeling" -> {"triple_coincidence", "High", "Low", "Close"}

\* a step whose columns are missing raises KeyError
HasColumns(stage, rows) == StageReads(stage) \subseteq Columns(rows)

\* line 71: df_processed[df_processed[flag] == 1].index
FlaggedIndex(rows, flag) == SortedSet({ p \in DOMAIN rows : rows[p][flag] = TRUE })

OrchIdle ==
    /\ orch_df = <<>> /\ self_config = <<>> /\ run_labeling = <<>>
    /\ df_processed = <<>> /\ opc = "idle" /\ orch_error = ""

OrchInit ==
    /\ orch_df \in [0..(PipeBars - 1) -> PipeCandles]
    /\ self_config \in PipeConfigs
    /\ run_labeling \in {<<>>, <<PipeLabelingConfig>>}
    /\ df_processed = <<>> /\ opc = "call" /\ orch_error = ""

OrchFrame == UNCHANGED <<orch_df, self_config, run_labeling>> /\ UNCHANGED notOrchVars

\* a step of run: the stage's result, or the exception that ends the run
OrchStage(stage, result, next) ==
    /\ opc = stage
    /\ IF HasColumns(stage, df_processed)
       THEN /\ df_processed' = result
            /\ opc' = next
            /\ UNCHANGED orch_error
       ELSE /\ opc' = "raised"
            /\ orch_error' = "KeyError"
            /\ UNCHANGED df_processed
    /\ OrchFrame

\* line 48: df_processed = df.copy()
RunCopy ==
    /\ opc = "call"
    /\ df_processed' = orch_df
    /\ opc' = "key_candles"
    /\ UNCHANGED orch_error
    /\ OrchFrame

\* line 52
RunKeyCandles ==
    OrchStage("key_candles", DetectKeyCandles(df_processed, self_config.key_candle), "zones")

\* line 55
RunZones ==
    OrchStage("zones", ZoneDetect(df_processed, self_config.accumulation_zone), "trends")

\* line 58
RunTrends ==
    OrchStage("trends", TrendDetect(df_processed, self_config.trend), "combine")

\* line 61: SignalCombiner.combine(df_processed, **self.config['combiner']); a
\* key that combine does not take raises TypeError
RunCombine ==
    /\ opc = "combine"
    /\ IF ~(DOMAIN self_config.combiner \subseteq CombineKeywords)
       THEN /\ opc' = "raised"
            /\ orch_error' = "TypeError"
            /\ UNCHANGED df_processed
       ELSE IF FirstMissing(required_cols, Columns(df_processed)) # ""
       THEN /\ opc' = "raised"
            /\ orch_error' = "ValueError"
            /\ UNCHANGED df_processed
       ELSE /\ df_processed' = Combine(df_processed, self_config.combiner.proximity_lookback)
            /\ opc' = "score"
            /\ UNCHANGED orch_error
    /\ OrchFrame

\* line 64
RunScore == OrchStage("score", Score(df_processed), "labeling")

\* lines 67-87: the optional labeling.  The labeler sets the 'atr' column of
\* the table it is given (ta.atr, undefined on a prefix) and the labels of
\* the rows that are no event are filled with 0.
RunLabeling ==
    /\ opc = "labeling"
    /\ IF run_labeling = <<>>
       THEN /\ opc' = "return"
            /\ UNCHANGED <<df_processed, orch_error>>
       ELSE IF ~HasColumns("labeling", df_processed)
       THEN /\ opc' = "raised"
            /\ orch_error' = "KeyError"
            /\ UNCHANGED df_processed
       ELSE /\ \E undef \in 0..NRows(df_processed), a \in PipePrices :
                 LET ev == FlaggedIndex(df_processed, "triple_coincidence")
                     priced == WithAtr(df_processed, undef, a)
                     labelled == BarrierLabels(priced, ev, run_labeling[1])
                 IN df_processed' =
                        IF ev # <<>>
                        THEN [p \in DOMAIN priced |->
                                [label |-> IF p \in DOMAIN labelled THEN labelled[p] ELSE 0]
                                @@ priced[p]]
                        ELSE [p \in DOMAIN df_processed |-> [label |-> 0] @@ df_processed[p]]
            /\ opc' = "return"
            /\ UNCHANGED orch_error
    /\ OrchFrame

\* line 90: return df_processed
RunReturn ==
    /\ opc = "return"
    /\ opc' = "done"
    /\ UNCHANGED <<df_processed, orch_error>>
    /\ OrchFrame

----------------------------------------------------------------------------
(* Two runs of the detectors and the combiner on series that share a prefix *)

PairBars == 3        \* rows of the two series

\* the candles of the two series open where they close
PairCandles == { c \in PipeCandles : c.Open = c.Close }

PairIdle ==
    /\ series_a = <<>> /\ series_b = <<>> /\ changed_at = 0
    /\ out_a = <<>> /\ out_b = <<>> /\ ppc = "idle"

PairInit ==
    /\ series_a \in [0..(PairBars - 1) -> PairCandles]
    /\ changed_at \in 1..(PairBars - 1)
    /\ \E c \in PairCandles :
          /\ c # series_a[changed_at]
          /\ series_b = [series_a EXCEPT ![changed_at] = c]
    /\ out_a = <<>> /\ out_b = <<>> /\ ppc = "key_candles"

PairConfig == DetectorConfig @@ [combiner |-> [proximity_lookback |-> 2]]

\* each step applies one stage of orchestrator.py lines 52-61 to both series

PairKeyCandles ==
    /\ ppc = "key_candles"
    /\ out_a' = DetectKeyCandles(series_a, PairConfig.key_candle)
    /\ out_b' = DetectKeyCandles(series_b, PairConfig.key_candle)
    /\ ppc' = "zones"
    /\ UNCHANGED <<series_a, series_b, changed_at>>
    /\ UNCHANGED notPairVars

PairZones ==
    /\ ppc = "zones"
    /\ out_a' = ZoneDetect(out_a, PairConfig.accumulation_zone)
    /\ out_b' = ZoneDetect(out_b, PairConfig.accumulation_zone)
    /\ ppc' = "trends"
    /\ UNCHANGED <<series_a, series_b, changed_at>>
    /\ UNCHANGED notPairVars

PairTrends ==
    /\ ppc = "trends"
    /\ out_a' = TrendDetect(out_a, PairConfig.trend)
    /\ out_b' = TrendDetect(out_b, PairConfig.trend)
    /\ ppc' = "combine"
    /\ UNCHANGED <<series_a, series_b, changed_at>>
    /\ UNCHANGED notPairVars

PairCombine ==
    /\ ppc = "combine"
    /\ out_a' = Combine(out_a, PairConfig.combiner.proximity_lookback)
    /\ out_b' = Combine(out_b, PairConfig.combiner.proximity_lookback)
    /\ ppc' = "done"
    /\ UNCHANGED <<series_a, series_b, changed_at>>
    /\ UNCHANGED notPairVars

----------------------------------------------------------------------------
(* TripleCoincidenceOrchestrator.run called twice on the same table *)

FirstCall == first_out = <<>>

RerunInit ==
    /\ orch_df \in [0..(PipeBars - 1) -> PairCandles]
    /\ self_config \in PipeConfigs
    /\ run_labeling \in {<<>>, <<PipeLabelingConfig>>}
    /\ df_processed = <<>> /\ opc = "call" /\ orch_error = ""
    /\ FirstCall

\* the caller keeps what the first call returned or raised and calls run
\* again with the same df, the same orchestrator and the same labeling_config
RunAgain ==
    /\ opc \in {"done", "raised"}
    /\ first_out = <<>>
    /\ first_out' = <<[ended |-> opc, table |-> df_processed, error |-> orch_error]>>
    /\ opc' = "call"
    /\ df_processed' = <<>>
    /\ orch_error' = ""
    /\ UNCHANGED <<orch_df, self_config, run_labeling>>
    /\ UNCHANGED <<labVars, combVars, zoneVars, pairVars, trendVars, keyVars, fetchVars,
                   scoreVars>>

----------------------------------------------------------------------------
(* BinanceKlinesFetcher.fetch_klines_by_template *)

FetchDays == 3       \* the days a template can name are 1..FetchDays
DaySlots == 0..1     \* the candles of one day, by their slot

\* line 118: the Open_Time of the candle at a slot of a day
OpenTime(day, slot) == day * Cardinality(DaySlots) + slot

\* test_system.py line 58: Open_Time.date()
DateOf(open_time) == open_time \div Cardinality(DaySlots)

\* what a day's download holds: nothing usable (the download or the archive
\* fails), an empty CSV, or the day's candles in the order of the file
DayFiles ==
    { [ok |-> FALSE, slots |-> <<>>], [ok |-> TRUE, slots |-> <<>>] }
    \cup { [ok |-> TRUE, slots |-> <<a>>] : a \in DaySlots }
    \cup { [ok |-> TRUE, slots |-> <<a, b>>] : a, b \in DaySlots }

\* lines 55-148: fetch_klines_as_dataframe; <<>> for None, <<table>> otherwise,
\* a table being the sequence of its rows with their index labels
fetch_klines_as_dataframe(files, day) ==
    IF ~files[day].ok THEN <<>>
    ELSE << [j \in 1..Len(files[day].slots) |->
                [idx |-> j - 1, Open_Time |-> OpenTime(day, files[day].slots[j])]] >>

\* klines_data_request_template.py lines 69-75
RECURSIVE get_date_range(_, _)
get_date_range(current_date, end_date) ==
    IF current_date <= end_date
    THEN <<current_date>> \o get_date_range(current_date + 1, end_date)
    ELSE <<>>

\* the index as it is: labels are not renumbered
KeepIndex(rows) == rows

\* ignore_index=True (line 195) and reset_index(drop=True) (line 199): the
\* labels become 0..n-1 in row order
ResetIndex(rows) == [j \in 1..Len(rows) |-> [rows[j] EXCEPT !.idx = j - 1]]

\* line 195: pd.concat(all_daily_dataframes, ignore_index=True)
RECURSIVE Concat(_)
Concat(frames) == IF frames = <<>> THEN <<>> ELSE Head(frames) \o Concat(Tail(frames))

\* line 199: sort_values(by="Open_Time"); each row keeps its label
RECURSIVE SortByOpenTime(_)
SortByOpenTime(rows) ==
    IF rows = <<>> THEN <<>>
    ELSE LET first == CHOOSE j \in 1..Len(rows) :
                         \A m \in 1..Len(rows) :
                            \/ rows[j].Open_Time < rows[m].Open_Time
                            \/ rows[j].Open_Time = rows[m].Open_Time /\ j <= m
         IN <<rows[first]>>
            \o SortByOpenTime([m \in 1..(Len(rows) - 1) |->
                                  IF m < first THEN rows[m] ELSE rows[m + 1]])

FetchIdle ==
    /\ template = <<>> /\ day_files = <<>> /\ date_range = <<>> /\ date_pos = 1
    /\ all_daily_dataframes = <<>> /\ fetch_result = <<>> /\ fpc = "idle"

\* a template passes __post_init__ (lines 34-35): end_date >= start_date
FetchInit ==
    /\ template \in { [start_date |-> a, end_date |-> b] :
                        <<a, b>> \in { t \in (1..FetchDays) \X (1..FetchDays) : t[1] <= t[2] } }
    /\ day_files \in [1..FetchDays -> DayFiles]
    /\ date_range = <<>> /\ date_pos = 1
    /\ all_daily_dataframes = <<>> /\ fetch_result = <<>> /\ fpc = "call"

\* lines 167-173
FetchCall ==
    /\ fpc = "call"
    /\ date_range' = get_date_range(template.start_date, template.end_date)
    /\ all_daily_dataframes' = <<>>
    /\ date_pos' = 1
    /\ fpc' = "days"
    /\ UNCHANGED <<template, day_files, fetch_result>>
    /\ UNCHANGED <<labVars, combVars, zoneVars, orchVars, pairVars, trendVars, keyVars,
                   rerunVars, scoreVars>>

\* lines 174-185: one day; its table is kept unless it is None or empty
FetchDay ==
    /\ fpc = "days"
    /\ date_pos <= Len(date_range)
    /\ LET daily_df == fetch_klines_as_dataframe(day_files, date_range[date_pos])
       IN all_daily_dataframes' =
              IF daily_df # <<>> /\ daily_df[1] # <<>>
              THEN Append(all_daily_dataframes, daily_df[1])
              ELSE all_daily_dataframes
    /\ date_pos' = date_pos + 1
    /\ UNCHANGED <<template, day_files, date_range, fetch_result, fpc>>
    /\ UNCHANGED <<labVars, combVars, zoneVars, orchVars, pairVars, trendVars, keyVars,
                   rerunVars, scoreVars>>

\* lines 188-202: None without data, else the concatenated, sorted table
FetchReturn ==
    /\ fpc = "days"
    /\ date_pos > Len(date_range)
    /\ fetch_result' =
          IF all_daily_dataframes = <<>> THEN <<>>
          ELSE << ResetIndex(SortByOpenTime(ResetIndex(Concat(all_daily_dataframes)))) >>
    /\ fpc' = "done"
    /\ UNCHANGED <<template, day_files, date_range, date_pos, all_daily_dataframes>>
    /\ UNCHANGED <<labVars, combVars, zoneVars, orchVars, pairVars, trendVars, keyVars,
                   rerunVars, scoreVars>>

----------------------------------------------------------------------------
(* SignalScorer.score called on a combined table *)

ScoreBars == 2       \* rows of the table given to score

\* the cells score reads: an event is a key candle (signal_detector.py line 51:
\* Volume >= volume_threshold) with its context; the other rows carry the
\* combiner's defaults
ScoreRows ==
    { [is_triple_coincidence |-> TRUE, Volume |-> vt[1], volume_threshold |-> <<vt[2], 1>>,
       body_percentage |-> <<b, 1>>, coincident_zone_score |-> <<43, 50>>,
       coincident_trend_r2 |-> <<1, 1>>, coincident_trend_direction |-> "alcista",
       coincident_trend_slope |-> <<1, 1>>] :
         vt \in { u \in (0..4) \X (0..2) : u[2] <= u[1] }, b \in {0, 10, 20, 50} }
    \cup { [is_triple_coincidence |-> FALSE, Volume |-> 1, volume_threshold |-> NaNF,
            body_percentage |-> <<100, 1>>, coincident_zone_score |-> NaNF,
            coincident_trend_r2 |-> NaNF, coincident_trend_direction |-> "ninguna",
            coincident_trend_slope |-> NaNF] }

ScoreIdle == score_df = <<>> /\ score_res = <<>>

ScoreInit ==
    /\ score_df \in [0..(ScoreBars - 1) -> ScoreRows]
    /\ score_res = <<>>

\* lines 72-127: score returns a copy of df with the score columns
ScoreCall ==
    /\ score_df # <<>>
    /\ score_res = <<>>
    /\ score_res' = <<Score(score_df)>>
    /\ UNCHANGED score_df
    /\ UNCHANGED <<labVars, combVars, zoneVars, orchVars, pairVars, trendVars, keyVars,
                   rerunVars, fetchVars>>

----------------------------------------------------------------------------
(* Specifications *)

InitLabeler ==
    LabInit /\ CombIdle /\ ZoneIdle /\ OrchIdle /\ PairIdle /\ TrendIdle /\ KeyIdle /\ FirstCall
    /\ FetchIdle /\ ScoreIdle
NextLabeler == LabelerCall \/ ForEvent \/ ScanBar \/ StoreLabel \/ LabelerReturn
SpecLabeler == InitLabeler /\ [][NextLabeler]_vars

LabOff == /\ lpc = "idle" /\ LabIdle
          /\ prices = <<>> /\ events_arg = <<>> /\ labeling_config = <<>>

InitCombiner ==
    CombInit /\ LabOff /\ ZoneIdle /\ OrchIdle /\ PairIdle /\ TrendIdle /\ KeyIdle /\ FirstCall
    /\ FetchIdle /\ ScoreIdle
NextCombiner == CombineCall \/ CombineKey \/ CombineReturn
SpecCombiner == InitCombiner /\ [][NextCombiner]_vars

InitZone ==
    ZoneInit /\ LabOff /\ CombIdle /\ OrchIdle /\ PairIdle /\ TrendIdle /\ KeyIdle /\ FirstCall
    /\ FetchIdle /\ ScoreIdle
NextZone == ZoneCall \/ ZoneCandle \/ ZoneReturn
SpecZone == InitZone /\ [][NextZone]_vars

InitPipeline ==
    OrchInit /\ LabOff /\ CombIdle /\ ZoneIdle /\ PairIdle /\ TrendIdle /\ KeyIdle /\ FirstCall
    /\ FetchIdle /\ ScoreIdle
NextPipeline ==
    \/ RunCopy \/ RunKeyCandles \/ RunZones \/ RunTrends \/ RunCombine \/ RunScore
    \/ RunLabeling \/ RunReturn
SpecPipeline == InitPipeline /\ [][NextPipeline]_vars

InitPair ==
    PairInit /\ LabOff /\ CombIdle /\ ZoneIdle /\ OrchIdle /\ TrendIdle /\ KeyIdle /\ FirstCall
    /\ FetchIdle /\ ScoreIdle
NextPair == PairKeyCandles \/ PairZones \/ PairTrends \/ PairCombine
SpecPair == InitPair /\ [][NextPair]_vars

InitTrend ==
    TrendInit /\ LabOff /\ CombIdle /\ ZoneIdle /\ OrchIdle /\ PairIdle /\ KeyIdle /\ FirstCall
    /\ FetchIdle /\ ScoreIdle
NextTrend == TrendCall \/ ZigzagCandle \/ ZigzagReturn \/ SegmentIter \/ TrendReturn
SpecTrend == InitTrend /\ [][NextTrend]_vars

InitKey ==
    KeyInit /\ LabOff /\ CombIdle /\ ZoneIdle /\ OrchIdle /\ PairIdle /\ TrendIdle /\ FirstCall
    /\ FetchIdle /\ ScoreIdle
NextKey == KeyDetect \/ KeyDetectOther
SpecKey == InitKey /\ [][NextKey]_vars

InitRerun ==
    RerunInit /\ LabOff /\ CombIdle /\ ZoneIdle /\ PairIdle /\ TrendIdle /\ KeyIdle
    /\ FetchIdle /\ ScoreIdle
NextRerun == NextPipeline \/ RunAgain
SpecRerun == InitRerun /\ [][NextRerun]_vars

InitFetch ==
    FetchInit /\ LabOff /\ CombIdle /\ ZoneIdle /\ OrchIdle /\ PairIdle /\ TrendIdle /\ KeyIdle
    /\ FirstCall /\ ScoreIdle
NextFetch == FetchCall \/ FetchDay \/ FetchReturn
SpecFetch == InitFetch /\ [][NextFetch]_vars

InitScore ==
    ScoreInit /\ LabOff /\ CombIdle /\ ZoneIdle /\ OrchIdle /\ PairIdle /\ TrendIdle /\ KeyIdle
    /\ FirstCall /\ FetchIdle
NextScore == ScoreCall
SpecScore == InitScore /\ [][NextScore]_vars

----------------------------------------------------------------------------
(* Properties of the barrier labeler *)

EntryOf(e) == prices[e].Close
AtrOf(e) == prices[e].atr
Scanned(e) == AtrOf(e) # NaN
SlOf(e) == EntryOf(e) - AtrOf(e) * labeling_config.stop_loss_factor
TierLevel(e, k) == EntryOf(e) + AtrOf(e) * labeling_config.profit_factors[k]
NTiers == Len(labeling_config.profit_factors)
PathOf(e) == e..(Min2(e + labeling_config.time_limit, NRows(prices)) - 1)
StopBars(e) == { b \in PathOf(e) : prices[b].Low <= SlOf(e) }
FirstStopBar(e) == CHOOSE b \in StopBars(e) : \A c \in StopBars(e) : b <= c
TiersTouched(e) == { k \in 1..NTiers : \E b \in PathOf(e) : prices[b].High >= TierLevel(e, k) }
HighestTierTouched(e) ==
    IF TiersTouched(e) = {} THEN 0
    ELSE CHOOSE k \in TiersTouched(e) : \A m \in TiersTouched(e) : m <= k
TopHigh(e, b) == CHOOSE h \in { prices[x].High : x \in e..b } :
                    \A x \in e..b : prices[x].High <= h

\* C1: with no stop-loss touched in the path, the returned label is the
\* highest profit tier touched by any bar of the path (0 if none).
C1_HighestTierKept ==
    lpc = "done" =>
        \A e \in DOMAIN labels :
            (Scanned(e) /\ StopBars(e) = {}) => labels[e] = HighestTierTouched(e)

\* C2: Scenario B - the stop-loss touched on the first bar of the path, no
\* profit level touched: the event is labelled -1 whatever Dmax in [0,1].
C2_FirstBarStopIsMinusOne ==
    lpc = "done" =>
        \A e \in DOMAIN labels :
            (Scanned(e) /\ prices[e].Low <= SlOf(e)
                /\ \A k \in 1..NTiers : prices[e].High < TierLevel(e, k))
            => labels[e] = -1

\* C3: the first bar b of the path with Low <= sl_level resolves the event:
\* the scan never goes past it, and the final label is 0 when
\* (max_high - sl)/(max_high - entry) > Dmax with max_high taken over i..b
\* and max_high > entry, and -1 otherwise, whatever the other bars hold.
C3_StopLossResolves ==
    /\ lpc = "scan" =>
          \A x \in t_events[event_pos]..(bar - 1) : prices[x].Low > sl_level
    /\ lpc = "done" =>
          \A e \in DOMAIN labels :
              (Scanned(e) /\ StopBars(e) # {}) =>
                  LET mh == TopHigh(e, FirstStopBar(e))
                      dmax == labeling_config.drawdown_threshold
                      excess == /\ mh > EntryOf(e)
                                /\ (mh - SlOf(e)) * dmax[2] > dmax[1] * (mh - EntryOf(e))
                  IN labels[e] = IF excess THEN 0 ELSE -1

\* Scenario C has run: stop-loss on the second bar after an excursion to 108,
\* a profit level touched again on the third bar, label 0 for Dmax = 0.5
C3_Witness ==
    /\ lpc = "done"
    /\ prices = WithAtr(ScenarioC, 0, 2)
    /\ labeling_config.drawdown_threshold = <<1, 2>>
    /\ labels[0] = 0

\* C4: every label, stored or tentative, lies in {-1, 0, 1, ..., len(profit_factors)}
C4_LabelRange ==
    /\ label \in -1..NTiers
    /\ \A e \in DOMAIN labels : labels[e] \in -1..NTiers

\* a run has returned with an event at the top tier and an event stopped out
C4_Witness ==
    /\ lpc = "done"
    /\ \E e \in DOMAIN labels : labels[e] = NTiers
    /\ \E e \in DOMAIN labels : labels[e] = -1

\* C5: an event whose ATR is undefined gets no label: its result is not one
\* of the label values, so it differs from a scanned event labelled 0.
C5_SkippedHasNoLabel ==
    lpc = "done" =>
        \A e \in DOMAIN labels : ~Scanned(e) => labels[e] \notin -1..NTiers

\* the candles from the event up to and including its stop-loss bar
UpToStop(e) == e..FirstStopBar(e)

\* C29: with ATR * SLf > 0 and Dmax <= 1 an event is labelled -1 only if the
\* stop-loss is touched and no candle from the event candle up to and
\* including the stop-loss bar has a High above the entry price; when such a
\* High exists the drawdown ratio is greater than 1 and the label is 0.
C29_MinusOneNeedsNoHighAboveEntry ==
    lpc = "done" =>
        \A e \in DOMAIN labels :
            (/\ Scanned(e)
             /\ AtrOf(e) * labeling_config.stop_loss_factor > 0
             /\ RatGE(<<1, 1>>, labeling_config.drawdown_threshold)) =>
                /\ labels[e] = -1 =>
                      /\ StopBars(e) # {}
                      /\ \A x \in UpToStop(e) : prices[x].High <= EntryOf(e)
                /\ (StopBars(e) # {} /\ \E x \in UpToStop(e) : prices[x].High > EntryOf(e)) =>
                      /\ RatGT(Drawdown(TopHigh(e, FirstStopBar(e)), SlOf(e), EntryOf(e)),
                               <<1, 1>>)
                      /\ labels[e] = 0

\* a run with Dmax = 1 has returned: one event is stopped on its own candle,
\* whose High is above the entry, and is labelled 0; another is stopped with
\* no High above the entry and is labelled -1
C29_Witness ==
    /\ lpc = "done"
    /\ labeling_config.drawdown_threshold = <<1, 1>>
    /\ \E e \in DOMAIN labels :
          /\ Scanned(e) /\ StopBars(e) # {} /\ FirstStopBar(e) = e
          /\ prices[e].High > EntryOf(e)
          /\ labels[e] = 0
    /\ \E e \in DOMAIN labels :
          /\ Scanned(e) /\ StopBars(e) # {}
          /\ \A x \in UpToStop(e) : prices[x].High <= EntryOf(e)
          /\ labels[e] = -1

----------------------------------------------------------------------------
(* Properties of the signal combiner *)

\* C6: when combine has returned, a key candle i is a composite event if and
\* only if its window [max(0, i-W), i) holds a row with zone_quality_score >=
\* min_zone_quality and a row with trend_r_squared >= min_trend_r2.
C6_QualityGate ==
    cpc = "done" =>
        \A i \in DOMAIN comb_res :
            comb_res[i].is_key_candle =>
                LET window == Max2(0, i - combiner_config.proximity_lookback)..(i - 1)
                IN comb_res[i].is_triple_coincidence <=>
                      /\ \E p \in window : RatGE(comb_res[p].zone_quality_score,
                                                 combiner_config.min_zone_quality)
                      /\ \E p \in window : RatGE(comb_res[p].trend_r_squared,
                                                 combiner_config.min_trend_r2)

\* C7: at every point of the loop, a row marked as composite event is a key
\* candle i > 0 with a zone row and a trend row at positions in
\* [max(0, i-W), i); rows at i or later and rows before i-W do not count.
C7_WindowBeforeEvent ==
    cpc \in {"for_key", "done"} =>
        \A i \in DOMAIN comb_res :
            comb_res[i].is_triple_coincidence =>
                /\ i > 0
                /\ comb_df.rows[i].is_key_candle
                /\ \E p \in DOMAIN comb_res :
                      /\ i - combiner_config.proximity_lookback <= p /\ p < i
                      /\ comb_df.rows[p].in_accumulation_zone
                /\ \E p \in DOMAIN comb_res :
                      /\ i - combiner_config.proximity_lookback <= p /\ p < i
                      /\ comb_df.rows[p].is_in_trend

\* combine has returned; a key candle became an event, and another key candle
\* with a zone and a trend only at its own row or after it did not
C7_Witness ==
    /\ cpc = "done"
    /\ \E i \in DOMAIN comb_res : comb_res[i].is_triple_coincidence
    /\ \E i \in DOMAIN comb_res :
          /\ comb_res[i].is_key_candle /\ ~comb_res[i].is_triple_coincidence
          /\ comb_res[i].in_accumulation_zone /\ comb_res[i].is_in_trend

----------------------------------------------------------------------------
(* Properties of the detectors and of the orchestrator *)

SegmenterColumns ==
    {"in_accumulation_zone", "zone_quality_score", "is_in_trend", "trend_id",
     "trend_r_squared", "trend_slope", "trend_direction"}

\* C8: for two series that agree on the candles 0..i, the segmenters' columns
\* at row i are the same; and for two series that agree on the candles before
\* i, a candle i that is anomalous in both is a composite event in both or in
\* neither.
C8_NoLookahead ==
    ppc = "done" =>
        /\ \A i \in 0..(changed_at - 1) :
              \A col \in SegmenterColumns : out_a[i][col] = out_b[i][col]
        /\ \A i \in 0..changed_at :
              (out_a[i].is_key_candle /\ out_b[i].is_key_candle) =>
                  out_a[i].is_triple_coincidence = out_b[i].is_triple_coincidence

\* C9: every step of run finds the columns it reads in df_processed, and a
\* run with a labeling configuration never ends in a KeyError: once it has
\* returned, the table has a label column.
C9_ColumnsFlowForward ==
    /\ (opc \in {"key_candles", "zones", "trends", "combine", "score"}
            \/ (opc = "labeling" /\ run_labeling # <<>>))
          => StageReads(opc) \subseteq Columns(df_processed)
    /\ orch_error # "KeyError"
    /\ (opc = "done" /\ run_labeling # <<>>) => "label" \in Columns(df_processed)

\* C10: every flagged candle lies in a closed zone whose period count is at
\* least min_zone_periods, and the candles of a zone closed with fewer
\* periods keep in_accumulation_zone = False and zone_quality_score = 0.0.
C10_FlaggedZonesLongEnough ==
    zpc \in {"loop", "done"} =>
        /\ \A p \in DOMAIN zone_res :
              zone_res[p].in_accumulation_zone =>
                  \E k \in DOMAIN zones_closed :
                      /\ zones_closed[k].start_idx <= p /\ p <= zones_closed[k].end_idx
                      /\ zones_closed[k].periods >= zone_config.min_zone_periods
        /\ \A k \in DOMAIN zones_closed :
              zones_closed[k].periods < zone_config.min_zone_periods =>
                  \A p \in zones_closed[k].start_idx..zones_closed[k].end_idx :
                      /\ ~zone_res[p].in_accumulation_zone
                      /\ zone_res[p].zone_quality_score = <<0, 1>>

\* detect has returned; one zone was closed too short by a compression break
\* and flagged nothing, a later one was retained and flagged its candles
C10_Witness ==
    /\ zpc = "done"
    /\ \E k \in DOMAIN zones_closed :
          /\ zones_closed[k].periods < zone_config.min_zone_periods
          /\ zones_closed[k].end_idx < NRows(zone_res) - 1
    /\ \E k \in DOMAIN zones_closed :
          /\ zones_closed[k].periods >= zone_config.min_zone_periods
          /\ \A p \in zones_closed[k].start_idx..zones_closed[k].end_idx :
                zone_res[p].in_accumulation_zone

\* C11: at every step of the zone pass at most one zone is open; the closed
\* zones and the open one follow each other without sharing a candle, so the
\* inclusive ranges of any two retained zones are disjoint and every flagged
\* candle carries the flag of exactly one retained zone.
C11_ZonesNeverOverlap ==
    zpc \in {"loop", "done"} =>
        /\ Len(current_zone) <= 1
        /\ \A j, k \in DOMAIN zones_closed :
              j < k => zones_closed[j].end_idx < zones_closed[k].start_idx
        /\ \A k \in DOMAIN zones_closed :
              /\ zones_closed[k].start_idx <= zones_closed[k].end_idx
              /\ (zpc = "loop" /\ current_zone # <<>>)
                     => zones_closed[k].end_idx < current_zone[1].start_idx
        /\ \A p \in DOMAIN zone_res :
              zone_res[p].in_accumulation_zone =>
                  Cardinality({ k \in DOMAIN zones_closed :
                                  /\ zones_closed[k].retained
                                  /\ zones_closed[k].start_idx <= p
                                  /\ p <= zones_closed[k].end_idx }) = 1

\* detect has returned with two retained zones, the second starting on the
\* candle that broke the first
C11_Witness ==
    /\ zpc = "done"
    /\ \E j, k \in DOMAIN zones_closed :
          /\ j < k
          /\ zones_closed[j].retained /\ zones_closed[k].retained
          /\ zones_closed[k].start_idx = zones_closed[j].end_idx + 1
          /\ zone_res[zones_closed[j].end_idx].in_accumulation_zone
          /\ zone_res[zones_closed[k].start_idx].in_accumulation_zone

----------------------------------------------------------------------------
(* Properties of the trend detector *)

\* the list of _detect_zigzag_pivots is known
PivotsKnown == tpc \in {"segments", "done"}

PivotsAscendFromZero ==
    /\ Len(trend_pivots) >= 1
    /\ trend_pivots[1] = 0
    /\ \A k \in 1..(Len(trend_pivots) - 1) : trend_pivots[k] < trend_pivots[k + 1]

\* C12 as stated: for every series, of length 0 included, the pivot list
\* starts at 0, is strictly ascending without duplicates, and every index
\* lies in [0, n-1].
C12_PivotsInRange ==
    PivotsKnown =>
        /\ PivotsAscendFromZero
        /\ \A k \in DOMAIN trend_pivots : trend_pivots[k] \in 0..(NRows(trend_df) - 1)

\* C12 amended: the pivot list starts at 0 and is strictly ascending without
\* duplicates for every series; every index lies in [0, n-1] when the series
\* has a candle, and the list of the empty series is [0].
C12_PivotsInRangeOfNonEmpty ==
    PivotsKnown =>
        /\ PivotsAscendFromZero
        /\ NRows(trend_df) >= 1 =>
              \A k \in DOMAIN trend_pivots : trend_pivots[k] \in 0..(NRows(trend_df) - 1)
        /\ NRows(trend_df) = 0 => trend_pivots = <<0>>

\* the walk has confirmed a pivot at a reversal and appended the last one:
\* three pivots, the last on the last candle
C12_Witness ==
    /\ PivotsKnown
    /\ Len(trend_pivots) = 3
    /\ trend_pivots[3] = NRows(trend_df) - 1

ClosesOf(seg) == { trend_df[p].Close : p \in seg.start_idx..seg.end_idx }

\* C19: every annotated segment whose Close values are all identical has
\* r_squared 1, slope 0 and direction 'plana'; every other annotated segment
\* has defined statistics (no division by zero), an r_squared in [0, 1], and
\* direction 'alcista' if and only if its slope is above 0, else 'bajista';
\* the rows of the segment carry these values.
C19_FlatSegment ==
    \A k \in DOMAIN segments :
        LET seg == segments[k]
        IN /\ Cardinality(ClosesOf(seg)) = 1 =>
                 /\ seg.stats.r_squared = <<1, 1>>
                 /\ seg.stats.slope = <<0, 1>>
                 /\ seg.stats.direction = "plana"
           /\ Cardinality(ClosesOf(seg)) > 1 =>
                 /\ ~IsNaNF(seg.stats.slope) /\ ~IsNaNF(seg.stats.r_squared)
                 /\ RatGE(seg.stats.r_squared, <<0, 1>>)
                 /\ RatGE(<<1, 1>>, seg.stats.r_squared)
                 /\ seg.stats.direction =
                        (IF RatGT(seg.stats.slope, <<0, 1>>) THEN "alcista" ELSE "bajista")
           /\ \A p \in seg.start_idx..(seg.end_idx - 1) :
                 /\ trend_res[p].is_in_trend
                 /\ trend_res[p].trend_r_squared = seg.stats.r_squared
                 /\ trend_res[p].trend_slope = seg.stats.slope
                 /\ trend_res[p].trend_direction = seg.stats.direction

\* detect has returned with a flat segment and a segment of changing Close
C19_Witness ==
    /\ tpc = "done"
    /\ \E k \in DOMAIN segments : Cardinality(ClosesOf(segments[k])) = 1
    /\ \E k \in DOMAIN segments :
          /\ Cardinality(ClosesOf(segments[k])) > 1
          /\ segments[k].stats.direction = "bajista"

\* a series of at least two candles whose Highs and Closes rise at every step
\* and whose first step exceeds the threshold
RisingSeries ==
    /\ NRows(trend_df) >= 2
    /\ \A p \in 1..(NRows(trend_df) - 1) :
          /\ trend_df[p].High > trend_df[p - 1].High
          /\ trend_df[p].Close > trend_df[p - 1].Close
    /\ RisesBy(trend_df[1].High, trend_df[0].Low, trend_config.zigzag_threshold)

\* C20: when detect has returned for a rising series of n >= min_trend_bars
\* candles, the pivot list is [0, n-1] and exactly one segment was annotated,
\* covering every candle, with slope > 0 and direction 'alcista'.
C20_RisingSeriesIsOneSegment ==
    (tpc = "done" /\ RisingSeries /\ NRows(trend_df) >= trend_config.min_trend_bars) =>
        /\ trend_pivots = <<0, NRows(trend_df) - 1>>
        /\ Len(segments) = 1
        /\ segments[1].start_idx = 0 /\ segments[1].end_idx = NRows(trend_df) - 1
        /\ RatGT(segments[1].stats.slope, <<0, 1>>)
        /\ segments[1].stats.direction = "alcista"
        /\ \A p \in DOMAIN trend_res :
              /\ trend_res[p].is_in_trend /\ trend_res[p].trend_id = 1
              /\ trend_res[p].trend_direction = "alcista"

\* detect has returned for Scenario E
C20_Witness ==
    /\ tpc = "done" /\ RisingSeries
    /\ NRows(trend_df) = 5 /\ trend_config.min_trend_bars = 5
    /\ Len(segments) = 1

----------------------------------------------------------------------------
(* Properties of the key-candle detector *)

\* the returned tables, once detect_key_candles has been called
KeyResults ==
    (IF kpc \in {"call_other", "done"} THEN {key_res} ELSE {})
        \cup (IF kpc = "done" THEN {key_res_other} ELSE {})

\* C13: in every returned table, is_key_candle holds for a candle if and only
\* if its volume threshold is defined, Volume >= threshold and
\* body_percentage <= body_percentile_threshold; body_percentage is 100 for a
\* flat candle and 100 * |Close - Open| / (High - Low) otherwise.
C13_BothConditions ==
    \A res \in KeyResults : \A p \in DOMAIN res :
        /\ res[p].is_key_candle <=>
              /\ ~IsNaNF(res[p].volume_threshold)
              /\ RatGE(<<res[p].Volume, 1>>, res[p].volume_threshold)
              /\ RatGE(<<key_config.body_percentile_threshold, 1>>, res[p].body_percentage)
        /\ res[p].High = res[p].Low => res[p].body_percentage = <<100, 1>>
        /\ res[p].High # res[p].Low =>
              res[p].body_percentage[1] * (res[p].High - res[p].Low)
                  = 100 * Abs(res[p].Close - res[p].Open) * res[p].body_percentage[2]

\* a returned table with a flagged candle and a candle of high volume and
\* large body that is not flagged; in the other table a candle of small body
\* and low volume that is not flagged
C13_Witness ==
    /\ kpc = "done"
    /\ \E p \in DOMAIN key_res : key_res[p].is_key_candle
    /\ \E p \in DOMAIN key_res :
          /\ ~key_res[p].is_key_candle
          /\ ~IsNaNF(key_res[p].volume_threshold)
          /\ RatGE(<<key_res[p].Volume, 1>>, key_res[p].volume_threshold)
    /\ \E p \in DOMAIN key_res_other :
          /\ ~key_res_other[p].is_key_candle
          /\ ~IsNaNF(key_res_other[p].volume_threshold)
          /\ RatGE(<<key_config.body_percentile_threshold, 1>>,
                   key_res_other[p].body_percentage)

NoThresholdBefore(first) ==
    \A res \in KeyResults :
        /\ \A p \in DOMAIN res :
              p < first => IsNaNF(res[p].volume_threshold) /\ ~res[p].is_key_candle
        /\ first \in DOMAIN res => ~IsNaNF(res[first].volume_threshold)

\* C14 as stated: with lookback L the candles at positions 0 .. L/2 - 1 have
\* no volume threshold and are not flagged, and the candle at position L/2
\* has a threshold: it is the first that can be flagged.
C14_NoThresholdForFirstHalf == NoThresholdBefore(key_config.volume_lookback \div 2)

\* C14 amended: the first candle with a threshold is at position
\* max(1, L // 2); the candles before it have none and are not flagged.
C14_NoThresholdBeforeFirstWindow ==
    NoThresholdBefore(Max2(1, key_config.volume_lookback \div 2))

\* with lookback 4 the candles 0 and 1 are not flagged and candle 2 is
C14_Witness ==
    /\ kpc = "done"
    /\ key_config.volume_lookback = 4
    /\ key_res[2].is_key_candle
    /\ RatGE(<<key_config.body_percentile_threshold, 1>>, key_res[0].body_percentage)

\* C15: the threshold of candle i is the same in the two tables unless the
\* candle that differs lies in i-L .. i-1, and is_key_candle at i is the same
\* when the candle that differs comes after i.
C15_ThresholdFromEarlierCandles ==
    kpc = "done" =>
        \A i \in DOMAIN key_res :
            /\ (key_changed < i - key_config.volume_lookback \/ key_changed >= i)
                  => key_res[i].volume_threshold = key_res_other[i].volume_threshold
            /\ key_changed > i => key_res[i] = key_res_other[i]

\* the changed candle moves the threshold of the candle after it and leaves
\* its own threshold, which is defined, as it was
C15_Witness ==
    /\ kpc = "done"
    /\ key_changed >= 1 /\ key_changed + 1 \in DOMAIN key_res
    /\ ~IsNaNF(key_res[key_changed].volume_threshold)
    /\ key_res[key_changed + 1].volume_threshold
           # key_res_other[key_changed + 1].volume_threshold
    /\ key_res[key_changed].Volume # key_res_other[key_changed].Volume

----------------------------------------------------------------------------
(* Properties of the combiner's context and of its column check *)

\* the rows of the window of key candle i whose column reaches the threshold
QualifyingRows(i, col, threshold) ==
    { p \in Max2(0, i - combiner_config.proximity_lookback)..(i - 1) :
        RatGE(comb_res[p][col], threshold) }

MaxOf(S) == CHOOSE x \in S : \A y \in S : y <= x

\* C16: when combine has returned, every composite event whose window holds
\* a row with zone_quality_score >= min_zone_quality and a row with
\* trend_r_squared >= min_trend_r2 carries the zone score of the last such
\* zone row and the r2, slope and direction of the last such trend row; a row
\* that is no composite event carries undefined scores and 'ninguna'.
C16_ContextOfLastQualifying ==
    cpc = "done" =>
        \A i \in DOMAIN comb_res :
            LET zq == QualifyingRows(i, "zone_quality_score", combiner_config.min_zone_quality)
                tq == QualifyingRows(i, "trend_r_squared", combiner_config.min_trend_r2)
            IN /\ (comb_res[i].is_triple_coincidence /\ zq # {} /\ tq # {}) =>
                     /\ comb_res[i].coincident_zone_score
                            = comb_res[MaxOf(zq)].zone_quality_score
                     /\ comb_res[i].coincident_trend_r2 = comb_res[MaxOf(tq)].trend_r_squared
                     /\ comb_res[i].coincident_trend_slope = comb_res[MaxOf(tq)].trend_slope
                     /\ comb_res[i].coincident_trend_direction
                            = comb_res[MaxOf(tq)].trend_direction
               /\ ~comb_res[i].is_triple_coincidence =>
                     /\ IsNaNF(comb_res[i].coincident_zone_score)
                     /\ IsNaNF(comb_res[i].coincident_trend_r2)
                     /\ IsNaNF(comb_res[i].coincident_trend_slope)
                     /\ comb_res[i].coincident_trend_direction = "ninguna"

MissingColumns == SeqToSet(required_cols) \ comb_df.columns

\* C17: a call of combine on a table that lacks a required column raises at
\* once, naming a missing column, with no result table; it raises only then;
\* nothing follows the raise and no step changes the input table.
C17_MissingColumnRaises ==
    [][/\ cpc # "raised"
       /\ comb_df' = comb_df
       /\ cpc = "call" =>
             IF MissingColumns # {}
             THEN cpc' = "raised" /\ comb_error' \in MissingColumns /\ comb_res' = <<>>
             ELSE cpc' # "raised" /\ comb_error' = ""]_vars

\* combine has raised for a table that lacks only the last required column
C17_Witness ==
    /\ cpc = "raised"
    /\ MissingColumns = {"trend_direction"}
    /\ comb_error = "trend_direction"
    /\ comb_res = <<>>

----------------------------------------------------------------------------
(* Properties of repeated runs *)

----------------------------------------------------------------------------
(* Properties of the stages' effect on their argument *)

\* C21: no step of any stage changes the table the caller passed to it: the
\* caller's table keeps its columns and its values, the labeler's price table
\* included.
C21_InputTableUnchanged ==
    [][/\ prices' = prices
       /\ comb_df' = comb_df
       /\ zone_df' = zone_df
       /\ trend_df' = trend_df
       /\ key_df' = key_df
       /\ orch_df' = orch_df]_vars

----------------------------------------------------------------------------
(* Properties of the trend segments *)

\* the pairs of consecutive pivots that are long enough, by their position k
LongPairs ==
    { k \in 1..(Len(trend_pivots) - 1) :
        trend_pivots[k + 1] - trend_pivots[k] + 1 >= trend_config.min_trend_bars }

\* the rank of the long pair k among the long pairs, in pivot order
RankOf(k) == Cardinality({ j \in LongPairs : j <= k })

\* the long pairs that cover the candle p
CoveredBy(p) == { k \in LongPairs : trend_pivots[k] <= p /\ p <= trend_pivots[k + 1] }

\* C22: when detect has returned, a segment was produced for a pair of
\* consecutive pivots exactly when its span is at least Mt; the produced
\* segments carry the ids 1, 2, 3, ... in pivot order; an earlier segment ends
\* at or before the start of a later one; a candle no produced segment covers
\* keeps is_in_trend false, trend_id 0 and direction 'ninguna', and a covered
\* candle carries the id of a segment that covers it.
C22_SegmentsOfLongPairs ==
    tpc = "done" =>
        /\ Len(segments) = Cardinality(LongPairs)
        /\ \A k \in LongPairs :
              /\ segments[RankOf(k)].start_idx = trend_pivots[k]
              /\ segments[RankOf(k)].end_idx = trend_pivots[k + 1]
        /\ \A j \in DOMAIN segments : segments[j].trend_id = j
        /\ \A j, m \in DOMAIN segments :
              j < m => segments[j].end_idx <= segments[m].start_idx
        /\ \A p \in DOMAIN trend_res :
              IF CoveredBy(p) = {}
              THEN /\ ~trend_res[p].is_in_trend
                   /\ trend_res[p].trend_id = 0
                   /\ trend_res[p].trend_direction = "ninguna"
              ELSE /\ trend_res[p].is_in_trend
                   /\ trend_res[p].trend_id = RankOf(MaxOf(CoveredBy(p)))

\* detect has returned for pivots 0, 1, 3 and Mt = 3: the pair (0, 1) was
\* skipped, the pair (1, 3) is segment 1 and candle 0 is in no trend
C22_Witness ==
    /\ tpc = "done"
    /\ trend_pivots = <<0, 1, 3>>
    /\ Len(segments) = 1
    /\ segments[1].start_idx = 1 /\ segments[1].trend_id = 1
    /\ ~trend_res[0].is_in_trend
    /\ trend_res[3].trend_id = 1

----------------------------------------------------------------------------
(* Properties of the klines fetcher *)

\* the days of the template's range whose fetch gives a non-empty table
DaysWithData ==
    { d \in template.start_date..template.end_date :
        day_files[d].ok /\ day_files[d].slots # <<>> }

\* the result is None exactly when no day yields data; otherwise it is a
\* non-empty table, ascending in Open_Time, labelled 0..n-1, holding the rows
\* of the days with data and no other
FetchedTable(first_date) ==
    IF DaysWithData = {} THEN fetch_result = <<>>
    ELSE /\ fetch_result # <<>>
         /\ LET tbl == fetch_result[1]
            IN /\ Len(tbl) > 0
               /\ \A j \in 1..(Len(tbl) - 1) : tbl[j].Open_Time <= tbl[j + 1].Open_Time
               /\ \A j \in 1..Len(tbl) : tbl[j].idx = j - 1
               /\ { DateOf(tbl[j].Open_Time) : j \in 1..Len(tbl) } = DaysWithData
               /\ DateOf(tbl[1].Open_Time) = first_date

\* C23, as stated: the first row of the table is dated the template's
\* start_date.
C23_FirstRowIsStartDate ==
    fpc = "done" => FetchedTable(template.start_date)

\* C23, amended: the first row of the table is dated the earliest day of the
\* range that yields data, which is start_date when that day yields data.
C23_FirstRowIsFirstDayWithData ==
    fpc = "done" =>
        FetchedTable(CHOOSE d \in DaysWithData : \A e \in DaysWithData : d <= e)

\* a range of three days returned a table: the first day failed, the second
\* holds its candles out of order, the third is empty
C23_Witness ==
    /\ fpc = "done"
    /\ template = [start_date |-> 1, end_date |-> 3]
    /\ ~day_files[1].ok
    /\ day_files[2].slots = <<1, 0>>
    /\ day_files[3] = [ok |-> TRUE, slots |-> <<>>]
    /\ fetch_result # <<>> /\ Len(fetch_result[1]) = 2

----------------------------------------------------------------------------
(* Properties of the labeler's path window *)

\* the price table with every candle outside the path of e replaced by the
\* candle of e
OnlyPathOf(e) ==
    [p \in DOMAIN prices |-> IF p \in PathOf(e) THEN prices[p] ELSE prices[e]]

----------------------------------------------------------------------------
(* Properties of the zone state machine *)

\* the loop is at a candle with a zone open
AtCandleWithZone == zpc = "loop" /\ zi < NRows(zone_res) /\ current_zone # <<>>

\* the height of the open zone with the candle at zi added exceeds ATR * At
BreaksCompression ==
    LET zone == current_zone[1]
        high == Max2(zone.price_high, zone_res[zi].High)
        low == Min2(zone.price_low, zone_res[zi].Low)
    IN (high - low) * zone_res[zi].atr[2] * zone_config.atr_multiplier[2]
           > zone_res[zi].atr[1] * zone_config.atr_multiplier[1]

\* Volume > volume_MA * Vt at the candle at zi
VolumeConditionHere ==
    zone_res[zi].Volume * zone_res[zi].volume_ma[2] * zone_config.volume_threshold[2]
        > zone_res[zi].volume_ma[1] * zone_config.volume_threshold[1]

\* C25: a step of the loop at candle i with a zone open since s.  When the
\* zone's height with candle i exceeds ATR(i) * At the zone closes without i:
\* with periods >= Pmin exactly the candles s..i-1 become members with one
\* shared score, otherwise no candle changes; the state becomes a one-candle
\* zone at i when Volume(i) > volume_MA(i) * Vt and no zone otherwise.  When
\* the height is within ATR(i) * At the zone is extended by candle i, whatever
\* the volume.
C25_CompressionBreak ==
    [][AtCandleWithZone =>
          LET zone == current_zone[1]
              i == zi
          IN IF BreaksCompression
             THEN /\ current_zone' =
                        IF VolumeConditionHere
                        THEN <<[start_idx |-> i, price_high |-> zone_res[i].High,
                                price_low |-> zone_res[i].Low,
                                volume_sum |-> zone_res[i].Volume, periods |-> 1]>>
                        ELSE <<>>
                  /\ IF zone.periods >= zone_config.min_zone_periods
                     THEN \A p \in DOMAIN zone_res :
                             IF zone.start_idx <= p /\ p <= i - 1
                             THEN /\ zone_res'[p].in_accumulation_zone
                                  /\ zone_res'[p].zone_quality_score
                                         = zone_res'[zone.start_idx].zone_quality_score
                             ELSE zone_res'[p] = zone_res[p]
                     ELSE zone_res' = zone_res
             ELSE /\ current_zone' # <<>>
                  /\ current_zone'[1].start_idx = zone.start_idx
                  /\ current_zone'[1].periods = zone.periods + 1
                  /\ zone_res' = zone_res]_vars

\* the candle before zi broke a zone of at least two candles that was
\* retained and had been extended by a candle without the volume condition:
\* its candles are flagged, the breaking candle is not and it is the first
\* candle of a new zone
C25_Witness ==
    /\ zpc = "loop"
    /\ zones_closed # <<>>
    /\ current_zone # <<>>
    /\ LET last == zones_closed[Len(zones_closed)]
       IN /\ last.retained /\ last.periods >= 2
          /\ last.end_idx = zi - 2
          /\ current_zone[1].start_idx = zi - 1
          /\ \A p \in last.start_idx..last.end_idx : zone_res[p].in_accumulation_zone
          /\ ~zone_res[zi - 1].in_accumulation_zone
          /\ \E p \in (last.start_idx + 1)..last.end_idx :
                zone_res[p].Volume * zone_res[p].volume_ma[2] * zone_config.volume_threshold[2]
                    <= zone_res[p].volume_ma[1] * zone_config.volume_threshold[1]

\* C26: the step after the last candle.  A zone still open with periods >=
\* Pmin flags exactly the candles from its start through the last candle
\* n-1 with its quality score; a shorter zone, or none, changes no candle;
\* the table keeps its n rows.
C26_EndOfSeries ==
    [][(zpc = "loop" /\ zi >= NRows(zone_res)) =>
          /\ DOMAIN zone_res' = DOMAIN zone_res
          /\ IF current_zone # <<>>
                /\ current_zone[1].periods >= zone_config.min_zone_periods
             THEN LET zone == current_zone[1]
                      n == NRows(zone_res)
                  IN \A p \in DOMAIN zone_res :
                        IF zone.start_idx <= p /\ p <= n - 1
                        THEN /\ zone_res'[p].in_accumulation_zone
                             /\ zone_res'[p].zone_quality_score
                                    = calculate_zone_quality(zone_res, zone.start_idx, n, zone)
                        ELSE zone_res'[p] = zone_res[p]
             ELSE zone_res' = zone_res]_vars

\* detect has returned; the zone open at the end, of at least two candles and
\* starting after candle 0, was retained: its candles up to the last one are
\* flagged and the candle before it is not
C26_Witness ==
    /\ zpc = "done"
    /\ current_zone # <<>>
    /\ LET zone == current_zone[1]
       IN /\ zone.periods >= 2 /\ zone.periods >= zone_config.min_zone_periods
          /\ zone.start_idx > 0
          /\ \A p \in zone.start_idx..(NRows(zone_res) - 1) : zone_res[p].in_accumulation_zone
          /\ ~zone_res[zone.start_idx - 1].in_accumulation_zone

\* C30: while a zone is open its statistics equal the values recomputed over
\* its candles start..current, current being the last candle the loop has
\* passed: periods = current - start + 1, price_high the highest High,
\* price_low the lowest Low, volume_sum the sum of Volume, hence price_high >=
\* price_low; and a closed zone's period count is the length of its range,
\* which is the number of candles it flags when it is retained.
C30_ZoneBookkeeping ==
    zpc \in {"loop", "done"} =>
        /\ current_zone # <<>> =>
              LET zone == current_zone[1]
                  range == zone.start_idx..(zi - 1)
              IN /\ zone.start_idx <= zi - 1
                 /\ zone.periods = (zi - 1) - zone.start_idx + 1
                 /\ \E p \in range : zone_res[p].High = zone.price_high
                 /\ \A p \in range : zone_res[p].High <= zone.price_high
                 /\ \E p \in range : zone_res[p].Low = zone.price_low
                 /\ \A p \in range : zone_res[p].Low >= zone.price_low
                 /\ zone.volume_sum = SumVolume(zone_res, zone.start_idx, zi - 1)
                 /\ zone.price_high >= zone.price_low
        /\ \A k \in DOMAIN zones_closed :
              LET closed == zones_closed[k]
              IN /\ closed.periods = closed.end_idx - closed.start_idx + 1
                 /\ closed.retained =>
                        Cardinality({ p \in DOMAIN zone_res :
                                        /\ closed.start_idx <= p /\ p <= closed.end_idx
                                        /\ zone_res[p].in_accumulation_zone })
                            = closed.periods

\* a zone of three candles is open whose highest High comes from a candle
\* after its first and lies above its lowest Low
C30_Witness ==
    /\ zpc = "loop"
    /\ current_zone # <<>>
    /\ current_zone[1].periods = 3
    /\ zone_res[current_zone[1].start_idx].High < current_zone[1].price_high
    /\ current_zone[1].price_high > current_zone[1].price_low

----------------------------------------------------------------------------
(* Properties of the zigzag walk *)

\* the candle at which the walk over trend_res took the trend it has after
\* candle i
LastFlip(i) ==
    LET flips == { j \in 1..i :
                     ZigzagWalk(trend_res, j, trend_config.zigzag_threshold).trend
                       # ZigzagWalk(trend_res, j - 1, trend_config.zigzag_threshold).trend }
    IN MaxOf(flips)

\* Low(i) / High(j) - 1 < -theta and High(i) / Low(j) - 1 > theta
DropsFrom(i, j) ==
    trend_res[i].Low * trend_config.zigzag_threshold[2]
        < trend_res[j].High
            * (trend_config.zigzag_threshold[2] - trend_config.zigzag_threshold[1])
ClimbsFrom(i, j) ==
    trend_res[i].High * trend_config.zigzag_threshold[2]
        > trend_res[j].Low
            * (trend_config.zigzag_threshold[2] + trend_config.zigzag_threshold[1])

\* C27: a step of the walk at candle i.  In the up state a High above the
\* High at last_pivot_idx only moves last_pivot_idx to i, whatever Low(i) is;
\* otherwise a Low more than theta below that High appends last_pivot_idx,
\* flips the trend to down and sets last_pivot_idx to i, and the appended
\* pivot has the highest High of the candles since the flip to up; otherwise
\* nothing changes.  The down state is symmetric.
C27_ZigzagStates ==
    [][(tpc = "walk" /\ tzi < NRows(trend_res) /\ zz.trend # 0) =>
          LET i == tzi
              last == zz.last_pivot_idx
              since == LastFlip(i - 1)..i
          IN IF zz.trend = 1
             THEN IF trend_res[i].High > trend_res[last].High
                  THEN zz' = [zz EXCEPT !.last_pivot_idx = i]
                  ELSE IF DropsFrom(i, last)
                  THEN /\ zz' = [pivots |-> Append(zz.pivots, last), trend |-> -1,
                                 last_pivot_idx |-> i]
                       /\ last \in since
                       /\ \A p \in since : trend_res[p].High <= trend_res[last].High
                  ELSE zz' = zz
             ELSE IF trend_res[i].Low < trend_res[last].Low
                  THEN zz' = [zz EXCEPT !.last_pivot_idx = i]
                  ELSE IF ClimbsFrom(i, last)
                  THEN /\ zz' = [pivots |-> Append(zz.pivots, last), trend |-> 1,
                                 last_pivot_idx |-> i]
                       /\ last \in since
                       /\ \A p \in since : trend_res[p].Low >= trend_res[last].Low
                  ELSE zz' = zz]_vars

\* in the up state the candle before tzi made a new High and its Low is more
\* than theta below the High of the extreme before it: the extreme moved to
\* that candle and no pivot was recorded
C27_Witness ==
    /\ tpc = "walk" /\ tzi >= 2
    /\ zz.trend = 1
    /\ zz.last_pivot_idx = tzi - 1
    /\ zz.pivots = <<0>>
    /\ LET before == ZigzagWalk(trend_res, tzi - 2, trend_config.zigzag_threshold)
       IN /\ before.trend = 1
          /\ trend_res[tzi - 1].High > trend_res[before.last_pivot_idx].High
          /\ DropsFrom(tzi - 1, before.last_pivot_idx)

----------------------------------------------------------------------------
(* Properties of the scorer *)

\* the candle scores a volume sub-score allows: 0.6 of it plus 0.4 of one of
\* the four morphology scores
CandleScoresWith(vol_score) ==
    { RatAdd(RatMul(vol_score, <<3, 5>>), RatMul(morph_score, <<2, 5>>)) :
        morph_score \in {<<1, 1>>, <<4, 5>>, <<3, 5>>, <<3, 10>>} }

\* C28: in the candle score of a scored event the volume sub-score is 0.5
\* for a Volume exactly at volume_threshold and 1.0 for a Volume of twice
\* the threshold or more.
C28_VolumeSubScore ==
    score_res # <<>> =>
        \A p \in DOMAIN score_res[1] :
            LET row == score_res[1][p]
            IN row.is_triple_coincidence =>
                  /\ row.Volume * row.volume_threshold[2] = row.volume_threshold[1]
                         => row.candle_score \in CandleScoresWith(<<1, 2>>)
                  /\ row.Volume * row.volume_threshold[2] >= 2 * row.volume_threshold[1]
                         => row.candle_score \in CandleScoresWith(<<1, 1>>)

====
